---- MODULE Spec2Model ----
(***************************************************************************)
(* Shapefile ingestion pipeline of the village map backend:                *)
(*   ShapefileService.processShapefile / processFeature                    *)
(*   VillageService.createVillagesBatch (Village.insertMany)               *)
(*   helpers.sanitizeString / helpers.cleanupFiles                         *)
(*   GeoService.validateGeometry                                           *)
(* A string is a sequence of one-character strings: "a.shp" is             *)
(* <<"a", ".", "s", "h", "p">>.                                            *)
(***************************************************************************)
EXTENDS Integers, Sequences, FiniteSets, TLC

\* ------------------------------------------------------------------------
\* Bounds of the model
\* ------------------------------------------------------------------------
\* DB_LIMITS.BATCH_SIZE is 100 in utils/constants.js:35; the model runs the
\* same loop with a small batch so that several flushes fit in a short stream.
BATCH_SIZE == 2

\* Longest stream of raw features the reader yields.
MaxFeatures == 8

\* errors.slice(0, 10)
ERROR_CAP == 10

\* ------------------------------------------------------------------------
\* Strings
\* ------------------------------------------------------------------------
\* The 25 WhiteSpace and LineTerminator code units String.prototype.trim
\* and parseInt strip: space, tab, LF, CR, FF, then U+000B ("@VT@"), U+00A0
\* ("@NBSP@"), U+FEFF ("@BOM@"), U+1680, U+2000 to U+200A, U+2028, U+2029,
\* U+202F, U+205F and U+3000.  A name between @ signs stands for the one
\* character of that code, which has no escape in a TLA+ string.
WhiteSpace ==
  {" ", "\t", "\n", "\r", "\f", "@VT@", "@NBSP@", "@BOM@",
   "@U1680@", "@U2000@", "@U2001@", "@U2002@", "@U2003@", "@U2004@",
   "@U2005@", "@U2006@", "@U2007@", "@U2008@", "@U2009@", "@U200A@",
   "@U2028@", "@U2029@", "@U202F@", "@U205F@", "@U3000@"}

IsSpace(c) ==
  c \in WhiteSpace

RECURSIVE TrimLeft(_)
TrimLeft(s) ==
  IF s # <<>> /\ IsSpace(Head(s)) THEN TrimLeft(Tail(s)) ELSE s

RECURSIVE TrimRight(_)
TrimRight(s) ==
  IF s # <<>> /\ IsSpace(s[Len(s)]) THEN TrimRight(SubSeq(s, 1, Len(s) - 1)) ELSE s

\* String.prototype.trim
Trim(s) ==
  TrimRight(TrimLeft(s))

NotAngle(c) ==
  c \notin {"<", ">"}

UpperCaseLetters ==
  <<"A", "B", "C", "D", "E", "F", "G", "H", "I", "J", "K", "L", "M",
    "N", "O", "P", "Q", "R", "S", "T", "U", "V", "W", "X", "Y", "Z">>

LowerCaseLetters ==
  <<"a", "b", "c", "d", "e", "f", "g", "h", "i", "j", "k", "l", "m",
    "n", "o", "p", "q", "r", "s", "t", "u", "v", "w", "x", "y", "z">>

\* String.prototype.toLowerCase, character by character
toLowerCase(s) ==
  [i \in DOMAIN s |->
     IF \E k \in DOMAIN UpperCaseLetters : UpperCaseLetters[k] = s[i]
       THEN LowerCaseLetters[CHOOSE k \in DOMAIN UpperCaseLetters :
                               UpperCaseLetters[k] = s[i]]
       ELSE s[i]]

\* ------------------------------------------------------------------------
\* Uploaded files
\* ------------------------------------------------------------------------
\* name.split('.').pop(): the characters after the last dot, the whole name
\* when it has none
LastSegment(name) ==
  LET dots == {i \in DOMAIN name : name[i] = "."}
  IN IF dots = {}
       THEN name
       ELSE SubSeq(name, (CHOOSE i \in dots : \A j \in dots : j <= i) + 1,
                   Len(name))

\* The extension compared as it was typed.
ExtensionCaseSensitive(file) ==
  <<".">> \o LastSegment(file.originalname)

\* '.' + file.originalname.split('.').pop().toLowerCase()
Extension(file) ==
  <<".">> \o toLowerCase(LastSegment(file.originalname))

DotShp ==
  <<".", "s", "h", "p">>

DotDbf ==
  <<".", "d", "b", "f">>

DotShx ==
  <<".", "s", "h", "x">>

DotPrj ==
  <<".", "p", "r", "j">>

\* ALLOWED_EXTENSIONS.REQUIRED
REQUIRED ==
  <<DotShp, DotDbf, DotShx, DotPrj>>

\* ALLOWED_EXTENSIONS.OPTIONAL
OPTIONAL ==
  << <<".", "c", "p", "g">>, <<".", "s", "b", "n">>, <<".", "s", "b", "x">> >>

SeqRange(s) ==
  {s[i] : i \in DOMAIN s}

validateShapefileComponents(fs) ==
  LET extensions == {Extension(fs[i]) : i \in DOMAIN fs}
      Absent(ext) == ext \notin extensions
      IsReq(f) == Extension(f) \in SeqRange(REQUIRED)
      IsOpt(f) == Extension(f) \in SeqRange(OPTIONAL)
      missingRequired == SelectSeq(REQUIRED, Absent)
  IN IF Len(missingRequired) > 0
       THEN [isValid |-> FALSE, missing |-> missingRequired,
             requiredFiles |-> <<>>, optionalFiles |-> <<>>]
       ELSE [isValid |-> TRUE, missing |-> <<>>,
             requiredFiles |-> SelectSeq(fs, IsReq),
             optionalFiles |-> SelectSeq(fs, IsOpt)]

\* f.originalname.toLowerCase().endsWith(ext)
EndsWithExt(file, ext) ==
  LET name == toLowerCase(file.originalname)
  IN /\ Len(name) >= Len(ext)
     /\ SubSeq(name, Len(name) - Len(ext) + 1, Len(name)) = ext

\* files.find(f => f.originalname.toLowerCase().endsWith(...)) is defined
HasFile(fs, ext) ==
  \E i \in DOMAIN fs : EndsWithExt(fs[i], ext)

File(name, p) ==
  [originalname |-> name, path |-> p]

\* a.SHP, a.dbf, a.shx, a.prj, a.cpg
CompleteUpload ==
  <<File(<<"a", ".", "S", "H", "P">>, "p1"),
    File(<<"a", ".", "d", "b", "f">>, "p2"),
    File(<<"a", ".", "s", "h", "x">>, "p3"),
    File(<<"a", ".", "p", "r", "j">>, "p4"),
    File(<<"a", ".", "c", "p", "g">>, "p5")>>

\* a.shp, a.Dbf, a.shx: no .prj
UploadWithoutPrj ==
  <<File(<<"a", ".", "s", "h", "p">>, "p1"),
    File(<<"a", ".", "D", "b", "f">>, "p2"),
    File(<<"a", ".", "s", "h", "x">>, "p3")>>

\* shp, a.dbf, a.shx, a.prj: the first name has no dot
UploadWithDotlessName ==
  <<File(<<"s", "h", "p">>, "p1"),
    File(<<"a", ".", "d", "b", "f">>, "p2"),
    File(<<"a", ".", "s", "h", "x">>, "p3"),
    File(<<"a", ".", "p", "r", "j">>, "p4")>>

\* The upload sets an ingestion is started with.
FileSets ==
  {CompleteUpload, UploadWithoutPrj, UploadWithDotlessName}

Paths(fs) ==
  {fs[i].path : i \in DOMAIN fs}

\* cleanupFiles with a loop that stops after the first file.
cleanupFilesFirstOnly(fs, onDisk, locked) ==
  IF fs = <<>> THEN onDisk ELSE onDisk \ ({fs[1].path} \ locked)

\* helpers.cleanupFiles: every file that has a path and exists is unlinked;
\* locked are the paths on which fs.unlinkSync raises (the catch logs the
\* error and the loop goes on), and those files stay.
cleanupFiles(fs, onDisk, locked) ==
  onDisk \ (Paths(fs) \ locked)

\* ------------------------------------------------------------------------
\* Attribute values and numbers
\* ------------------------------------------------------------------------
DecimalDigits ==
  <<"0", "1", "2", "3", "4", "5", "6", "7", "8", "9">>

HexDigits ==
  DecimalDigits \o <<"a", "b", "c", "d", "e", "f">>

\* The decimal digits of n >= 0
RECURSIVE Decimal(_)
Decimal(n) ==
  IF n < 10
    THEN <<DecimalDigits[n + 1]>>
    ELSE Append(Decimal(n \div 10), DecimalDigits[(n % 10) + 1])

\* Number.prototype.toString of an integer
NumberToString(n) ==
  IF n < 0 THEN <<"-">> \o Decimal(0 - n) ELSE Decimal(n)

\* An attribute of a feature, or a query parameter: absent, a number (v is
\* its value when it is an integer, chars what toString gives for it), or
\* text.
PopAbsent ==
  [kind |-> "undefined", v |-> 0, chars |-> <<>>]

PopNumber(n) ==
  [kind |-> "number", v |-> n, chars |-> NumberToString(n)]

\* A number that is not an integer, by what toString gives for it: 12.9
PopDecimal(chars) ==
  [kind |-> "number", v |-> 0, chars |-> chars]

PopText(chars) ==
  [kind |-> "string", v |-> 0, chars |-> chars]

\* x || '' : undefined, 0, NaN and '' are replaced by ''
OrEmpty(x) ==
  IF \/ x.kind = "undefined"
     \/ x.kind = "number" /\ x.chars \in {<<"0">>, <<"N", "a", "N">>}
    THEN PopText(<<>>)
    ELSE x

\* helpers.sanitizeString: '' for anything but a string; a string is
\* trimmed, then every < and > is dropped
sanitizeString(str) ==
  IF str.kind # "string"
    THEN <<>>
    ELSE SelectSeq(Trim(str.chars), NotAngle)

IsDigit(c, radix) ==
  \E i \in 1..radix : HexDigits[i] = toLowerCase(<<c>>)[1]

DigitValue(c) ==
  (CHOOSE i \in DOMAIN HexDigits : HexDigits[i] = toLowerCase(<<c>>)[1]) - 1

\* The value in the radix of the longest prefix of its digits, from acc;
\* none: -1.
RECURSIVE DigitsPrefix(_, _, _)
DigitsPrefix(chars, radix, acc) ==
  IF chars = <<>> \/ ~IsDigit(Head(chars), radix)
    THEN acc
    ELSE DigitsPrefix(Tail(chars), radix,
                      (IF acc < 0 THEN 0 ELSE acc) * radix
                        + DigitValue(Head(chars)))

\* parseInt(x) of the text String(x): leading white space, an
\* optional sign, an optional 0x or 0X that makes the radix 16, then the
\* digits up to the first other character; NaN without a digit there.
parseInt(x) ==
  IF x.kind = "undefined"
    THEN [isNaN |-> TRUE, v |-> 0]
  ELSE LET t == TrimLeft(x.chars)
           signed == t # <<>> /\ Head(t) \in {"-", "+"}
           u == IF signed THEN Tail(t) ELSE t
           hex == Len(u) >= 2 /\ u[1] = "0" /\ u[2] \in {"x", "X"}
           n == IF hex THEN DigitsPrefix(Tail(Tail(u)), 16, -1)
                       ELSE DigitsPrefix(u, 10, -1)
       IN IF n < 0
            THEN [isNaN |-> TRUE, v |-> 0]
          ELSE IF signed /\ Head(t) = "-"
            THEN [isNaN |-> FALSE, v |-> 0 - n]
          ELSE [isNaN |-> FALSE, v |-> n]

\* parseInt(properties.tot_p) || 0
parseIntOrZero(x) ==
  IF parseInt(x).isNaN THEN 0 ELSE parseInt(x).v

\* ------------------------------------------------------------------------
\* Geometries: GeoService.validateGeometry, calculateCentroid,
\* calculateBounds, calculateArea
\* ------------------------------------------------------------------------
\* geometry.coordinates by its nesting: "missing" (undefined or null),
\* "string" (a non-empty string), "empty" ([]), "numbers" ([1, 2], a
\* Point), "points" ([[1, 2], [3, 4]], a LineString), "rings" (a Polygon)
\* or "polygons" (a MultiPolygon).  ring is coordinates[0].length where
\* coordinates[0] is an array: the numbers of the first point, the points
\* of the first ring, the rings of the first polygon.  The numbers are not 0;
\* geographic tells whether they are longitudes in -180..180 and latitudes
\* in -90..90 (FALSE: coordinates of a projected reference system).
Coordinates(kind, n) ==
  [kind |-> kind, ring |-> n, geographic |-> TRUE]

Projected(coords) ==
  [coords EXCEPT !.geographic = FALSE]

Geometry(t, c) ==
  [defined |-> TRUE, type |-> t, coords |-> c]

\* geometry is null or undefined
NullGeometry ==
  [defined |-> FALSE, type |-> "", coords |-> Coordinates("missing", 0)]

\* GeoService.validateGeometry
validateGeometry(geometry) ==
  IF \/ ~geometry.defined
     \/ geometry.type = ""
     \/ geometry.coords.kind = "missing"
    THEN FALSE
  ELSE IF geometry.type \notin {"Polygon", "MultiPolygon", "Point",
                                "LineString"}
    THEN FALSE
  ELSE IF geometry.coords.kind = "string"
    THEN FALSE
  ELSE IF geometry.type = "Polygon"
    THEN CASE geometry.coords.kind = "empty" -> FALSE
           [] geometry.coords.kind = "numbers" -> TRUE
           [] OTHER -> geometry.coords.ring >= 3
  ELSE TRUE

\* What a calculation did: whether it raised, where its value came from
\* ("turf", "first coordinate", "calculatePolygonArea" for the shoelace sum,
\* "zero" for the constant 0) and the kind of value it returned.
Outcome(raised, via, value) ==
  [raised |-> raised, via |-> via, value |-> value]

NotCalled ==
  Outcome(FALSE, "", "")

\* A latitude and longitude taken from the coordinates of the geometry.
FromCoordinates(geometry) ==
  IF geometry.coords.geographic THEN "inRange" ELSE "outOfRange"

\* Lines 76-83: reading geometry.coordinates raises on a missing geometry;
\* coordinates[0][0] is a character of a string (lat is then undefined), a
\* number of a point whose destructuring raises, the first point of a ring,
\* or the first ring of a polygon (lat and lng are then arrays).
centroidFallback(geometry) ==
  IF ~geometry.defined
    THEN Outcome(TRUE, "TypeError", "")
  ELSE IF geometry.coords.kind = "points"
    THEN Outcome(TRUE, "TypeError", "")
  ELSE IF geometry.coords.kind = "string"
    THEN Outcome(FALSE, "first coordinate", "notNumbers")
  ELSE IF geometry.coords.kind = "rings" /\ geometry.coords.ring > 0
    THEN Outcome(FALSE, "first coordinate", FromCoordinates(geometry))
  ELSE IF geometry.coords.kind = "polygons" /\ geometry.coords.ring > 0
    THEN Outcome(FALSE, "first coordinate", "notNumbers")
  ELSE Outcome(FALSE, "zero", "inRange")

\* Lines 103-109
boundsFallback(geometry) ==
  Outcome(FALSE, "zero", "numbers")

\* Lines 154-159 with calculatePolygonArea: a first ring of 3 or more points
\* gets to the shoelace sum; a first point of 3 numbers raises there, and
\* a first polygon of 3 rings makes the sum NaN.  Everything else gives 0,
\* from line 159, from the guard of calculatePolygonArea or from its loop
\* that does not run.
areaFallback(geometry) ==
  IF ~geometry.defined
    THEN Outcome(TRUE, "TypeError", "")
  ELSE IF geometry.coords.kind = "points" /\ geometry.coords.ring >= 3
    THEN Outcome(TRUE, "TypeError", "")
  ELSE IF geometry.coords.kind = "rings" /\ geometry.coords.ring >= 3
    THEN Outcome(FALSE, "calculatePolygonArea", "number")
  ELSE IF geometry.coords.kind = "polygons" /\ geometry.coords.ring >= 3
    THEN Outcome(FALSE, "calculatePolygonArea", "NaN")
  ELSE Outcome(FALSE, "zero", "number")

\* GeoService.calculateCentroid; turfThrows: turf.centroid raises.  What
\* turf returns lies among the coordinates it was given.
calculateCentroid(geometry, turfThrows) ==
  IF turfThrows
    THEN centroidFallback(geometry)
    ELSE Outcome(FALSE, "turf", FromCoordinates(geometry))

\* GeoService.calculateBounds; turfThrows: turf.bbox raises
calculateBounds(geometry, turfThrows) ==
  IF turfThrows
    THEN boundsFallback(geometry)
    ELSE Outcome(FALSE, "turf", "numbers")

\* GeoService.calculateArea; turfThrows: turf.area raises
calculateArea(geometry, turfThrows) ==
  IF turfThrows
    THEN areaFallback(geometry)
    ELSE Outcome(FALSE, "turf", "number")

\* Which of the three library calls raise.
Turf(centroid, bbox, area) ==
  [centroid |-> centroid, bbox |-> bbox, area |-> area]

TurfOutcomes ==
  {Turf(c, b, a) : c \in BOOLEAN, b \in BOOLEAN, a \in BOOLEAN}

TurfReturns ==
  Turf(FALSE, FALSE, FALSE)

TurfThrows ==
  Turf(TRUE, TRUE, TRUE)

\* ------------------------------------------------------------------------
\* Features and their transformation
\* ------------------------------------------------------------------------
Properties(st, di, su, vi, pc) ==
  [defined |-> TRUE, state_name |-> PopText(st), district_n |-> PopText(di),
   subdistric |-> PopText(su), village_na |-> PopText(vi),
   pc11_tv_id |-> PopText(pc), tot_p |-> PopAbsent]

NullProperties ==
  [defined |-> FALSE, state_name |-> PopAbsent, district_n |-> PopAbsent,
   subdistric |-> PopAbsent, village_na |-> PopAbsent,
   pc11_tv_id |-> PopAbsent, tot_p |-> PopAbsent]

Feature(g, p) ==
  [geometry |-> g, properties |-> p]

Poly4 ==
  Geometry("Polygon", Coordinates("rings", 4))

\* The raw features a read of the stream can yield.
FeatureInputs ==
  { Feature(Poly4, Properties(<<"s">>, <<"d">>, <<"u">>, <<"v">>, <<>>)),
    Feature(Poly4, Properties(<<" ", "s">>, <<"d">>, <<"<", "u", ">">>, <<"v">>, <<"1">>)),
    Feature(Poly4, Properties(<<"s">>, <<"d">>, <<"u">>, <<>>, <<"3">>)),
    Feature(Poly4, Properties(<<"\t">>, <<"d">>, <<"u">>, <<"v">>, <<"4">>)),
    Feature(Poly4, Properties(<<"s">>, <<"d">>, <<"<", ">">>, <<"v">>, <<"4">>)),
    Feature(Geometry("Polygon", Coordinates("rings", 2)),
            Properties(<<"s">>, <<"d">>, <<"u">>, <<"v">>, <<"4">>)),
    Feature(Geometry("Circle", Coordinates("rings", 4)),
            Properties(<<"s">>, <<"d">>, <<"u">>, <<"v">>, <<"4">>)),
    Feature(NullGeometry, Properties(<<"s">>, <<"d">>, <<"u">>, <<"v">>, <<"4">>)),
    Feature(Poly4, NullProperties) }

\* !feature.geometry || !feature.properties : the record is skipped
IsSkipped(feature) ==
  ~feature.geometry.defined \/ ~feature.properties.defined

\* ShapefileService.processFeature: [accepted, villageData]; accepted is FALSE
\* for the null it returns when the geometry is invalid, when
\* calculateCentroid or calculateArea raises, or when an identity field is
\* empty.  Every throw is caught inside processFeature itself.  turf tells
\* which library calls raise.
processFeature(feature, turf) ==
  LET p == feature.properties
      centroid == calculateCentroid(feature.geometry, turf.centroid)
      bounds == calculateBounds(feature.geometry, turf.bbox)
      area == calculateArea(feature.geometry, turf.area)
      villageData ==
        [state_name |-> sanitizeString(OrEmpty(p.state_name)),
         district_n |-> sanitizeString(OrEmpty(p.district_n)),
         subdistric |-> sanitizeString(OrEmpty(p.subdistric)),
         village_na |-> sanitizeString(OrEmpty(p.village_na)),
         pc11_tv_id |-> sanitizeString(OrEmpty(p.pc11_tv_id)),
         tot_p |-> parseIntOrZero(p.tot_p),
         geometry |-> feature.geometry,
         centroid |-> centroid.value,
         bounds |-> bounds.value,
         area |-> area.value]
  IN IF ~validateGeometry(feature.geometry)
       THEN [accepted |-> FALSE, villageData |-> villageData]
     ELSE IF centroid.raised \/ bounds.raised \/ area.raised
       THEN [accepted |-> FALSE, villageData |-> villageData]
     ELSE IF villageData.state_name = <<>> \/ villageData.district_n = <<>>
             \/ villageData.subdistric = <<>>
       THEN [accepted |-> FALSE, villageData |-> villageData]
     ELSE [accepted |-> TRUE, villageData |-> villageData]

\* ------------------------------------------------------------------------
\* The store: Village.insertMany(docs, {ordered: false, rawResult: true})
\* ------------------------------------------------------------------------
\* villageSchema: state_name, district_n, subdistric, village_na are
\* required strings with trim: true; tot_p has min: 0; geometry.type is an
\* enum; geometry.coordinates is cast to [[[Number]]], which an array nested
\* four deep fails; centroid.lat and centroid.lng are required numbers
\* within -90..90 and -180..180; the four bounds are required numbers; area
\* is a number.
SchemaValid(doc) ==
  /\ doc.tot_p >= 0
  /\ Trim(doc.state_name) # <<>>
  /\ Trim(doc.district_n) # <<>>
  /\ Trim(doc.subdistric) # <<>>
  /\ Trim(doc.village_na) # <<>>
  /\ doc.geometry.type \in {"Polygon", "MultiPolygon"}
  /\ doc.geometry.coords.kind # "polygons"
  /\ doc.centroid = "inRange"
  /\ doc.bounds = "numbers"
  /\ doc.area = "number"

\* pc11_tv_id: unique index; the transformer always sets the field.
UniqueKey(doc) ==
  Trim(doc.pc11_tv_id)

StoreKeys(st) ==
  {UniqueKey(d) : d \in st}

\* Village.insertMany while it is pending: the documents that passed
\* validation and are still to be written, and what the store answered for
\* those already sent.  Documents that fail schema validation are left out
\* without an error (unordered insertMany).  noIdErrors counts the write
\* errors of documents without a census id.
PendingWrite(docs) ==
  [todo |-> SelectSeq(docs, SchemaValid), insertedCount |-> 0,
   writeErrors |-> 0, noIdErrors |-> 0]

NoWrite ==
  PendingWrite(<<>>)

\* The store takes the next document of an unordered insert: a document
\* whose key is already stored is a write error, any other goes in.
WriteDocument(st, w) ==
  LET doc == Head(w.todo)
  IN IF UniqueKey(doc) \in StoreKeys(st)
       THEN [store |-> st,
             write |-> [w EXCEPT !.todo = Tail(w.todo),
                                 !.writeErrors = w.writeErrors + 1,
                                 !.noIdErrors =
                                    IF UniqueKey(doc) = <<>>
                                      THEN w.noIdErrors + 1
                                      ELSE w.noIdErrors]]
       ELSE [store |-> st \cup {doc},
             write |-> [w EXCEPT !.todo = Tail(w.todo),
                                 !.insertedCount = w.insertedCount + 1]]

\* Outcome of one insertMany call when its await resumes.  down: the call
\* fails as a whole (no connection) before anything is written.
insertMany(w, down) ==
  IF down
    THEN [insertedCount |-> 0, writeErrors |-> 0,
          rejected |-> TRUE, hasWriteErrors |-> FALSE, noIdErrors |-> 0]
    ELSE [insertedCount |-> w.insertedCount,
          writeErrors |-> w.writeErrors,
          rejected |-> w.writeErrors > 0,
          hasWriteErrors |-> w.writeErrors > 0,
          noIdErrors |-> w.noIdErrors]

Err(t) ==
  [type |-> t]

Repeat(x, n) ==
  [i \in 1..n |-> x]

\* VillageService.createVillagesBatch, given the outcome of insertMany
createVillagesBatch(villagesData, out) ==
  IF ~out.rejected
    THEN [successCount |-> IF out.insertedCount # 0 THEN out.insertedCount
                                                  ELSE Len(villagesData),
          errors |-> <<>>]
  ELSE IF out.hasWriteErrors
    THEN [successCount |-> Len(villagesData) - out.writeErrors,
          errors |-> Repeat(Err("DUPLICATE_ENTRY"), out.writeErrors)]
  ELSE [successCount |-> 0, errors |-> <<Err("BATCH_INSERT_ERROR")>>]

\* ------------------------------------------------------------------------
\* ShapefileService.processShapefile as a state machine
\* ------------------------------------------------------------------------
VARIABLES
  files,          \* the uploaded file objects (argument)
  observer,       \* progressCallback: "none", "wellBehaved" or "throwing" (raises on every call)
  disk,           \* paths of the uploaded files still on disk
  locked,         \* paths on which fs.unlinkSync raised
  store,          \* the villages collection
  write,          \* the Village.insertMany call that is pending
  pc,             \* "start", "loop", "flush", "finalFlush", "done"
  batch,          \* let batch
  processedCount, \* let processedCount
  errors,         \* const errors
  result,         \* the returned IngestResult (meaningful when pc = "done")
  exitPath,       \* how the call ended: "", "success", "components", "find", "open", "read"
  cleanupCalls,   \* calls of cleanupFiles
  observerCalls,  \* the (processed, errorCount) pairs passed to the observer
  nFeatures,      \* raw features handed to processFeature
  nDiscarded,     \* features for which processFeature returned null
  nFlushes,       \* completed createVillagesBatch calls
  flushLog,       \* (processedCount, errors.length) right after each of them
  lastFlush,      \* what the latest of them was given, did and reported
  successSum,     \* sum of the successCounts those calls reported
  inserted,       \* documents this call really added to the store
  recorded,       \* entries pushed to the error list so far
  reference,      \* processedCount and errors of the same run without an observer
  phase,          \* position of the operation under way outside the ingestion
  input,          \* its arguments and the stored data it reads
  output          \* what it has returned and done so far

vars ==
  <<files, observer, disk, locked, store, write, pc, batch, processedCount, errors, result,
    exitPath, cleanupCalls, observerCalls, nFeatures, nDiscarded, nFlushes,
    flushLog, lastFlush, successSum, inserted, recorded, reference,
    phase, input, output>>

\* The variables of the operations outside processShapefile.
callVars ==
  <<phase, input, output>>

NoCall ==
  [op |-> "none"]

\* No such operation is under way.
CallIdle ==
  /\ phase = "idle"
  /\ input = NoCall
  /\ output = NoCall

Observers ==
  {"none", "wellBehaved", "throwing"}

Min(a, b) ==
  IF a < b THEN a ELSE b

\* errors.slice(0, n)
Slice(s, n) ==
  SubSeq(s, 1, Min(n, Len(s)))

NoResult ==
  [success |-> FALSE, processedCount |-> 0, errorCount |-> 0, errors |-> <<>>]

\* return of the try block
SuccessResult(pcnt, errs) ==
  [success |-> TRUE, processedCount |-> pcnt, errorCount |-> Len(errs),
   errors |-> Slice(errs, ERROR_CAP)]

\* The catch block reporting errors.length without the fatal error.
FailureResultUncounted(pcnt, errs) ==
  [success |-> FALSE, processedCount |-> pcnt, errorCount |-> Len(errs),
   errors |-> Append(errs, Err("GENERAL_ERROR"))]

\* The catch block forgetting what was processed before the abort.
FailureResultReset(pcnt, errs) ==
  [success |-> FALSE, processedCount |-> 0, errorCount |-> Len(errs) + 1,
   errors |-> Append(errs, Err("GENERAL_ERROR"))]

\* return of the outer catch block
FailureResult(pcnt, errs) ==
  [success |-> FALSE, processedCount |-> pcnt, errorCount |-> Len(errs) + 1,
   errors |-> Append(errs, Err("GENERAL_ERROR"))]

\* The uploaded files whose unlink raises: none, or the first one.
LockedPaths ==
  { {}, {"p1"} }

\* The collection when the upload starts.
InitialStores ==
  { {} }

NoFlush ==
  [size |-> 0, down |-> FALSE, insertedCount |-> 0, writeErrors |-> 0,
   successCount |-> 0, errorEntries |-> 0, noIdErrors |-> 0]

\* What one createVillagesBatch call was given, did and reported.
FlushRecord(docs, out, batchResult, down) ==
  [size |-> Len(docs), down |-> down, insertedCount |-> out.insertedCount,
   writeErrors |-> out.writeErrors,
   successCount |-> batchResult.successCount,
   errorEntries |-> Len(batchResult.errors),
   noIdErrors |-> out.noIdErrors]

Init ==
  /\ files \in FileSets
  /\ observer \in Observers
  /\ disk = Paths(files)
  /\ locked = {}
  /\ store \in InitialStores
  /\ write = NoWrite
  /\ pc = "start"
  /\ batch = <<>>
  /\ processedCount = 0
  /\ errors = <<>>
  /\ result = NoResult
  /\ exitPath = ""
  /\ cleanupCalls = 0
  /\ observerCalls = <<>>
  /\ nFeatures = 0
  /\ nDiscarded = 0
  /\ nFlushes = 0
  /\ flushLog = <<>>
  /\ lastFlush = NoFlush
  /\ successSum = 0
  /\ inserted = 0
  /\ recorded = 0
  /\ reference = [processedCount |-> 0, errors |-> <<>>]
  /\ CallIdle

\* A return statement followed by the finally block.
Return(res, path) ==
  /\ result' = res
  /\ exitPath' = path
  /\ \E raising \in LockedPaths :
       /\ locked' = raising
       /\ disk' = cleanupFiles(files, disk, raising)
  /\ cleanupCalls' = cleanupCalls + 1
  /\ pc' = "done"

\* Lines 92-103 with the catch of lines 107-114: what follows a full-batch
\* createVillagesBatch.  obs is the callback, throws whether this call of it
\* raises.
AfterBatch(pcnt, errs, batchResult, obs, throws) ==
  LET p2 == pcnt + batchResult.successCount
      e2 == errs \o batchResult.errors
      called == obs # "none"
  IN [processedCount |-> p2,
      errors |-> IF called /\ throws
                   THEN Append(e2, Err("FEATURE_PROCESSING_ERROR"))
                   ELSE e2,
      called |-> called,
      args |-> <<p2, Len(e2)>>]

\* Lines 52-68: validation, file lookup and shapefile.open
Start ==
  /\ pc = "start"
  /\ UNCHANGED callVars
  /\ UNCHANGED <<files, observer, store, write, batch, processedCount, errors,
                 observerCalls, nFeatures, nDiscarded, nFlushes, flushLog,
                 lastFlush, successSum, inserted, recorded, reference>>
  /\ IF ~validateShapefileComponents(files).isValid
       THEN Return(FailureResult(processedCount, errors), "components")
     ELSE IF ~HasFile(files, DotShp) \/ ~HasFile(files, DotDbf)
       THEN Return(FailureResult(processedCount, errors), "find")
     ELSE \E opens \in BOOLEAN :
            IF opens
              THEN /\ pc' = "loop"
                   /\ UNCHANGED <<result, exitPath, disk, locked,
                                  cleanupCalls>>
              ELSE Return(FailureResult(processedCount, errors), "open")

\* The flush test with > in place of >=.
BatchFullLate(b) ==
  Len(b) > BATCH_SIZE

\* Line 90: batch.length >= batchSize
BatchFull(b) ==
  Len(b) >= BATCH_SIZE

\* Lines 74-91: source.read() yields a feature.  An empty record is skipped
\* by the continue of line 79 and changes nothing.  turf: which of the
\* library calls of processFeature raise on it.  A full batch is handed to
\* createVillagesBatch, whose insertMany is awaited.
ReadFeature ==
  /\ pc = "loop"
  /\ UNCHANGED callVars
  /\ nFeatures < MaxFeatures
  /\ \E feature \in FeatureInputs, turf \in {TurfReturns, TurfThrows} :
       IF IsSkipped(feature)
         THEN UNCHANGED <<batch, nFeatures, nDiscarded, pc, write>>
         ELSE LET r == processFeature(feature, turf)
                  b2 == IF r.accepted THEN Append(batch, r.villageData) ELSE batch
              IN /\ batch' = b2
                 /\ nFeatures' = nFeatures + 1
                 /\ nDiscarded' = IF r.accepted THEN nDiscarded ELSE nDiscarded + 1
                 /\ pc' = IF BatchFull(b2) THEN "flush" ELSE "loop"
                 /\ write' = IF BatchFull(b2) THEN PendingWrite(b2) ELSE write
  /\ UNCHANGED <<files, observer, disk, locked, store, processedCount, errors,
                 result,
                 exitPath, cleanupCalls, observerCalls, nFlushes, flushLog,
                 lastFlush, successSum, inserted, recorded, reference>>

\* The batch carried over the flush instead of being replaced.
BatchAfterFlushKept(b) ==
  b

\* Line 98: batch = []
BatchAfterFlush(b) ==
  <<>>

\* Village.insertMany at villageService.js:18 while processShapefile waits
\* at line 91 or 119: the store takes the documents one at a time, and the
\* requests of other clients are served in between.
InsertManyWrite ==
  /\ pc \in {"flush", "finalFlush"}
  /\ write.todo # <<>>
  /\ UNCHANGED callVars
  /\ store' = WriteDocument(store, write).store
  /\ write' = WriteDocument(store, write).write
  /\ UNCHANGED <<files, observer, disk, locked, pc, batch, processedCount,
                 errors, result, exitPath, cleanupCalls, observerCalls,
                 nFeatures, nDiscarded, nFlushes, flushLog, lastFlush,
                 successSum, inserted, recorded, reference>>

\* The await of insertMany resumes: every document has been sent, or the
\* call failed before the first one.
Settles(w, down) ==
  IF down THEN w.insertedCount + w.writeErrors = 0 ELSE w.todo = <<>>

\* Lines 91-114: the await of the bulk write of a full batch resumes, and
\* what follows it up to the next read
Flush ==
  /\ pc = "flush"
  /\ UNCHANGED callVars
  /\ \E down \in BOOLEAN :
       LET throws == observer = "throwing"
           out == insertMany(write, down)
           batchResult == createVillagesBatch(batch, out)
           after == AfterBatch(processedCount, errors, batchResult, observer, throws)
           ref == AfterBatch(reference.processedCount, reference.errors,
                             batchResult, "none", FALSE)
       IN /\ Settles(write, down)
          /\ processedCount' = after.processedCount
          /\ errors' = after.errors
          /\ observerCalls' = IF after.called THEN Append(observerCalls, after.args)
                                              ELSE observerCalls
          /\ flushLog' = Append(flushLog, after.args)
          /\ lastFlush' = FlushRecord(batch, out, batchResult, down)
          /\ successSum' = successSum + batchResult.successCount
          /\ inserted' = inserted + out.insertedCount
          /\ recorded' = recorded + Len(batchResult.errors)
                           + (IF after.called /\ throws THEN 1 ELSE 0)
          /\ reference' = [processedCount |-> ref.processedCount, errors |-> ref.errors]
  /\ write' = NoWrite
  /\ batch' = BatchAfterFlush(batch)
  /\ nFlushes' = nFlushes + 1
  /\ pc' = "loop"
  /\ UNCHANGED <<files, observer, disk, locked, store, result, exitPath,
                 cleanupCalls, nFeatures, nDiscarded>>

\* Line 75 and lines 118, 127-135: the stream is exhausted
ReadDone ==
  /\ pc = "loop"
  /\ UNCHANGED callVars
  /\ IF batch # <<>>
       THEN /\ pc' = "finalFlush"
            /\ write' = PendingWrite(batch)
            /\ UNCHANGED <<result, exitPath, disk, locked, cleanupCalls>>
       ELSE /\ Return(SuccessResult(processedCount, errors), "success")
            /\ UNCHANGED write
  /\ UNCHANGED <<files, observer, store, batch, processedCount, errors,
                 observerCalls, nFeatures, nDiscarded, nFlushes, flushLog,
                 lastFlush, successSum, inserted, recorded, reference>>

\* Lines 119-135 and 149-152: the await of the bulk write of the trailing
\* partial batch resumes, then the return and the finally block
FinalFlush ==
  /\ pc = "finalFlush"
  /\ UNCHANGED callVars
  /\ \E down \in BOOLEAN :
       LET out == insertMany(write, down)
           batchResult == createVillagesBatch(batch, out)
           p2 == processedCount + batchResult.successCount
           e2 == errors \o batchResult.errors
       IN /\ Settles(write, down)
          /\ processedCount' = p2
          /\ errors' = e2
          /\ flushLog' = Append(flushLog, <<p2, Len(e2)>>)
          /\ lastFlush' = FlushRecord(batch, out, batchResult, down)
          /\ successSum' = successSum + batchResult.successCount
          /\ inserted' = inserted + out.insertedCount
          /\ recorded' = recorded + Len(batchResult.errors)
          /\ reference' =
               [processedCount |-> reference.processedCount + batchResult.successCount,
                errors |-> reference.errors \o batchResult.errors]
          /\ Return(SuccessResult(p2, e2), "success")
  /\ write' = NoWrite
  /\ nFlushes' = nFlushes + 1
  /\ UNCHANGED <<files, observer, store, batch, observerCalls, nFeatures,
                 nDiscarded>>

\* Line 74 raises (the stream cannot be read further): outer catch
ReadThrows ==
  /\ pc = "loop"
  /\ UNCHANGED callVars
  /\ Return(FailureResult(processedCount, errors), "read")
  /\ UNCHANGED <<files, observer, store, write, batch, processedCount, errors,
                 observerCalls, nFeatures, nDiscarded, nFlushes, flushLog,
                 lastFlush, successSum, inserted, recorded, reference>>

\* VillageController.deleteAllVillages with VillageService.deleteAllVillages
\* (DELETE /villages/all), a request of another client at any moment: with
\* the confirmation text Village.deleteMany({}) empties the collection,
\* without it the request is refused and nothing changes.
DeleteAllVillages ==
  /\ \E confirm \in {"DELETE_ALL_VILLAGES", ""} :
       store' = IF confirm # "DELETE_ALL_VILLAGES" THEN store ELSE {}
  /\ UNCHANGED callVars
  /\ UNCHANGED <<files, observer, disk, locked, write, pc, batch,
                 processedCount, errors, result, exitPath, cleanupCalls,
                 observerCalls, nFeatures, nDiscarded, nFlushes, flushLog,
                 lastFlush, successSum, inserted, recorded, reference>>

Next ==
  \/ Start
  \/ ReadFeature
  \/ InsertManyWrite
  \/ Flush
  \/ ReadDone
  \/ FinalFlush
  \/ ReadThrows
  \/ DeleteAllVillages

Spec ==
  Init /\ [][Next]_vars

\* ------------------------------------------------------------------------
\* Properties
\* ------------------------------------------------------------------------
IsFeatureError(e) ==
  e.type = "FEATURE_PROCESSING_ERROR"

IsStoreError(e) ==
  e.type \in {"DUPLICATE_ENTRY", "BATCH_INSERT_ERROR"}

FeatureErrors(errs) ==
  Len(SelectSeq(errs, IsFeatureError))

StoreErrors(errs) ==
  Len(SelectSeq(errs, IsStoreError))

\* C1: when an ingestion completes without a fatal error and without store
\* write failures, processedCount plus the feature-processing errors counted
\* in errorCount equals the number of raw features transformed.
C1_AccountingClosure ==
  (pc = "done" /\ result.success /\ StoreErrors(errors) = 0)
    => result.processedCount + FeatureErrors(errors) = nFeatures

\* C2: every returned IngestResult, success or failure, carries at most 10
\* error entries.
C2_ErrorListCapped ==
  pc = "done" => Len(result.errors) <= ERROR_CAP

\* C3: in every IngestResult errorCount is the number of errors recorded
\* during the call and processedCount is the number of records the call
\* really inserted into the store.
C3_ExactCounts ==
  pc = "done" =>
    /\ result.errorCount = recorded + (IF result.success THEN 0 ELSE 1)
    /\ result.processedCount = inserted

\* C4: on every exit path cleanupFiles runs exactly once, before the result
\* is returned, and no uploaded file is left on disk after the return.
C4_CleanupExactlyOnce ==
  /\ pc = "done" => (cleanupCalls = 1 /\ disk \cap Paths(files) = {})
  /\ pc # "done" => (cleanupCalls = 0 /\ result = NoResult /\ exitPath = "")

\* C4, amended: on every exit path cleanupFiles runs exactly once, before
\* the result is returned, and the uploaded files left on disk after the
\* return are exactly those whose unlink raised.
C4_CleanupOnceUnlessLocked ==
  /\ pc = "done" => (cleanupCalls = 1 /\ disk = Paths(files) \cap locked)
  /\ pc # "done" => (cleanupCalls = 0 /\ result = NoResult /\ exitPath = ""
                        /\ disk = Paths(files))

C4_Witness ==
  /\ pc = "done"
  /\ exitPath = "read"
  /\ nFlushes >= 1
  /\ cleanupCalls = 1
  /\ locked = {"p1"}
  /\ disk = {"p1"}
  /\ Cardinality(Paths(files)) >= 4

\* C5: when the file pair cannot be opened no bulk write is issued, the
\* result is a failure with processedCount 0 and errorCount >= 1, and the
\* uploaded files are deleted.
C5_OpenFailure ==
  (pc = "done" /\ exitPath = "open") =>
    /\ ~result.success
    /\ result.processedCount = 0
    /\ result.errorCount >= 1
    /\ nFlushes = 0
    /\ inserted = 0
    /\ store \in InitialStores
    /\ disk \cap Paths(files) = {}

\* C5, amended: when the file pair cannot be opened no bulk write is
\* issued, the result is a failure with processedCount 0 and errorCount >= 1,
\* and every uploaded file is deleted except those whose unlink raised.
C5_OpenFailureUnlessLocked ==
  (pc = "done" /\ exitPath = "open") =>
    /\ ~result.success
    /\ result.processedCount = 0
    /\ result.errorCount >= 1
    /\ nFlushes = 0
    /\ inserted = 0
    /\ store \in InitialStores
    /\ disk = Paths(files) \cap locked

C5_Witness ==
  /\ pc = "done"
  /\ exitPath = "open"
  /\ ~result.success
  /\ result.errorCount = 1
  /\ locked = {"p1"}
  /\ disk = {"p1"}

\* C6: a fatal error after k flushes yields one failure result whose
\* processedCount is the sum of the k successCounts and whose errors are all
\* those recorded before the abort followed by one entry for the fatal error.
C6_FatalKeepsAccounting ==
  (pc = "done" /\ exitPath = "read") =>
    /\ ~result.success
    /\ result.processedCount = successSum
    /\ result.errorCount = recorded + 1
    /\ Len(result.errors) = recorded + 1
    /\ SubSeq(result.errors, 1, recorded) = errors
    /\ result.errors[recorded + 1] = Err("GENERAL_ERROR")

C6_Witness ==
  /\ pc = "done"
  /\ exitPath = "read"
  /\ nFlushes >= 2
  /\ successSum >= 1
  /\ recorded >= 2

\* C7: in a bulk write of n records of which k are rejected by the store,
\* the other n-k are inserted and createVillagesBatch reports
\* successCount = n-k with exactly k error entries.
C7_PartialBatchWrite ==
  (nFlushes > 0 /\ ~lastFlush.down) =>
    LET k == lastFlush.writeErrors
    IN /\ lastFlush.insertedCount = lastFlush.size - k
       /\ lastFlush.successCount = lastFlush.size - k
       /\ lastFlush.errorEntries = k

\* C8: every feature discarded by the transformer is recorded as a
\* feature-processing error counted in errorCount.
C8_DiscardsRecorded ==
  pc = "done" =>
    /\ FeatureErrors(errors) >= nDiscarded
    /\ result.errorCount >= nDiscarded

\* C9: a supplied observer is called exactly once after each flush, the
\* trailing partial one included, with the cumulative counts of that moment,
\* and at no other time.
C9_ObserverAfterEachFlush ==
  observer # "none" => observerCalls = flushLog

\* C10: the IngestResult is the one the same run yields without an observer,
\* whether the observer is absent, well behaved or throwing.
C10_ObserverIrrelevant ==
  pc = "done" =>
    result = IF result.success
               THEN SuccessResult(reference.processedCount, reference.errors)
               ELSE FailureResult(reference.processedCount, reference.errors)

Ceil(a, b) ==
  (a + b - 1) \div b

\* C11: the batch never holds more than BATCH_SIZE records, every accepted
\* record is either in the batch or in a completed bulk write of BATCH_SIZE
\* records, and a completed ingestion has issued
\* ceil(acceptedRecords / BATCH_SIZE) bulk writes.
C11_BatchBounded ==
  /\ Len(batch) <= BATCH_SIZE
  /\ pc \in {"loop", "flush", "finalFlush"}
       => nFlushes * BATCH_SIZE + Len(batch) = nFeatures - nDiscarded
  /\ pc = "loop" => Len(batch) < BATCH_SIZE
  /\ exitPath = "success"
       => nFlushes = Ceil(nFeatures - nDiscarded, BATCH_SIZE)

C11_Witness ==
  /\ exitPath = "success"
  /\ nFlushes >= 3
  /\ nDiscarded >= 1
  /\ (nFeatures - nDiscarded) % BATCH_SIZE # 0

\* C23: while a bulk write is outstanding no feature is read and the batch
\* is left as it is, the step that ends the wait completes the one bulk
\* write, and the batch is empty when the loop resumes; a feature is read
\* only while no bulk write is outstanding.
C23_StrictlySequential ==
  [][/\ pc \in {"flush", "finalFlush"} =>
          /\ nFeatures' = nFeatures
          /\ nDiscarded' = nDiscarded
          /\ pc' = pc => (batch' = batch /\ nFlushes' = nFlushes)
          /\ pc' # pc =>
               /\ nFlushes' = nFlushes + 1
               /\ write.todo = <<>> \/ write.insertedCount + write.writeErrors = 0
               /\ pc' \in {"loop", "done"}
               /\ pc' = "loop" => batch' = <<>>
     /\ (nFeatures' # nFeatures \/ Len(batch') > Len(batch)) =>
          /\ pc = "loop"
          /\ write = NoWrite
          /\ nFlushes' = nFlushes
          /\ store' = store]_vars

\* The loop has resumed after two flushes and is accumulating again.
C23_Witness ==
  /\ pc = "loop"
  /\ nFlushes >= 2
  /\ Len(batch) = 1

\* C26: no record without a census id is refused by the uniqueness
\* constraint on the census id, in any bulk write of any ingestion.
C26_MissingIdNeverConflicts ==
  lastFlush.noIdErrors = 0

\* C27: once validateShapefileComponents has accepted the file set, the
\* search for the .shp and the .dbf file finds both, so no ingestion ends
\* on 'Missing required .shp or .dbf file'.
C27_FindersAgreeWithValidator ==
  (pc = "done" /\ validateShapefileComponents(files).isValid)
    => exitPath # "find"

\* ------------------------------------------------------------------------
\* validateShapefileComponents on its own
\* ------------------------------------------------------------------------

MaxFiles == 4

\* The variables of processShapefile.
ingestVars ==
  <<files, observer, disk, locked, store, write, pc, batch, processedCount, errors, result,
    exitPath, cleanupCalls, observerCalls, nFeatures, nDiscarded, nFlushes,
    flushLog, lastFlush, successSum, inserted, recorded, reference>>

\* No ingestion is under way.
IngestIdle ==
  /\ files = <<>>
  /\ observer = "none"
  /\ disk = {}
  /\ locked = {}
  /\ store = {}
  /\ write = NoWrite
  /\ pc = "idle"
  /\ batch = <<>>
  /\ processedCount = 0
  /\ errors = <<>>
  /\ result = NoResult
  /\ exitPath = ""
  /\ cleanupCalls = 0
  /\ observerCalls = <<>>
  /\ nFeatures = 0
  /\ nDiscarded = 0
  /\ nFlushes = 0
  /\ flushLog = <<>>
  /\ lastFlush = NoFlush
  /\ successSum = 0
  /\ inserted = 0
  /\ recorded = 0
  /\ reference = [processedCount |-> 0, errors |-> <<>>]

\* originalname values: a.shp, a.sHp, a.Dbf, b.shx, a.PRJ, a.CPG, shp,
\* a.prj.txt
UploadNames ==
  { <<"a", ".", "s", "h", "p">>, <<"a", ".", "s", "H", "p">>,
    <<"a", ".", "D", "b", "f">>, <<"b", ".", "s", "h", "x">>,
    <<"a", ".", "P", "R", "J">>, <<"a", ".", "C", "P", "G">>,
    <<"s", "h", "p">>,
    <<"a", ".", "p", "r", "j", ".", "t", "x", "t">> }

SeqsUpTo(S, n) ==
  UNION {[1..k -> S] : k \in 0..n}

UploadSets ==
  {[i \in DOMAIN names |-> File(names[i], "p")] :
     names \in SeqsUpTo(UploadNames, MaxFiles)}

ComponentsInit ==
  /\ IngestIdle
  /\ phase = "components"
  /\ input \in {[op |-> "validateShapefileComponents", files |-> fs] :
                  fs \in UploadSets}
  /\ output = NoCall

ValidateComponents ==
  /\ phase = "components"
  /\ phase' = "validated"
  /\ output' = [op |-> "validateShapefileComponents",
                result |-> validateShapefileComponents(input.files)]
  /\ UNCHANGED input
  /\ UNCHANGED ingestVars

ComponentsNext ==
  ValidateComponents

ComponentsSpec ==
  ComponentsInit /\ [][ComponentsNext]_vars

\* c is the letter l or its capital.
SameLetter(c, l) ==
  \/ c = l
  \/ \E k \in DOMAIN LowerCaseLetters :
       LowerCaseLetters[k] = l /\ UpperCaseLetters[k] = c

\* The mandatory extension ext is what follows the last dot of some
\* uploaded name (the whole name when it has no dot), whatever its case.
Uploaded(fs, ext) ==
  \E i \in DOMAIN fs :
    LET name == fs[i].originalname
        n == Len(ext) - 1
    IN /\ Len(name) >= n
       /\ \A k \in 1..n : SameLetter(name[Len(name) - n + k], ext[k + 1])
       /\ Len(name) > n => name[Len(name) - n] = "."

\* C12: validateShapefileComponents fails exactly when a mandatory extension
\* is absent from the uploaded names, compared without regard to case, and
\* the failure lists the absent mandatory extensions, each once, in the
\* order of ALLOWED_EXTENSIONS.REQUIRED.
C12_MissingComponents ==
  phase = "validated" =>
    LET r == output.result
        fs == input.files
        absent == {e \in SeqRange(REQUIRED) : ~Uploaded(fs, e)}
    IN /\ r.isValid <=> absent = {}
       /\ SeqRange(r.missing) = absent
       /\ Len(r.missing) = Cardinality(absent)
       /\ \A i, j \in DOMAIN r.missing :
            i < j => \E k, l \in DOMAIN REQUIRED :
                       /\ k < l
                       /\ REQUIRED[k] = r.missing[i]
                       /\ REQUIRED[l] = r.missing[j]

\* {a.sHp, a.Dbf, b.shx} lists exactly .prj.
C12_Witness ==
  /\ phase = "validated"
  /\ ~output.result.isValid
  /\ output.result.missing = <<DotPrj>>
  /\ \E i \in DOMAIN input.files :
       input.files[i].originalname = <<"a", ".", "s", "H", "p">>
  /\ \E i \in DOMAIN input.files :
       input.files[i].originalname = <<"a", ".", "D", "b", "f">>

\* ------------------------------------------------------------------------
\* getShapefileMetadata, twice, then processShapefile on the same upload
\* ------------------------------------------------------------------------

MaxShapeFeatures == 4

REQUIRED_FIELDS ==
  <<"state_name", "district_n", "subdistric", "village_na", "tot_p">>

\* Object.keys(feature.properties) of the features a shapefile holds.
FieldLists ==
  { REQUIRED_FIELDS, <<"village_na", "tot_p">>, <<"name">> }

ShapefileContents ==
  SeqsUpTo(FieldLists, MaxShapeFeatures)

\* A source that continues where the previous one stopped.
shapefileOpenShared(cursor) ==
  cursor

\* shapefile.open: a new source, positioned before the first feature,
\* whatever earlier sources have read.
shapefileOpen(cursor) ==
  0

\* source.read()
sourceRead(features, cursor) ==
  IF cursor >= Len(features)
    THEN [done |-> TRUE, value |-> <<>>, cursor |-> cursor]
    ELSE [done |-> FALSE, value |-> features[cursor + 1],
          cursor |-> cursor + 1]

\* Lines 241-246
MetadataFailure ==
  [success |-> FALSE, featureCount |-> 0, fieldNames |-> <<>>,
   hasRequiredFields |-> FALSE]

\* Lines 230-239
MetadataSuccess(featureCount, fieldNames) ==
  [success |-> TRUE, featureCount |-> featureCount,
   fieldNames |-> fieldNames,
   hasRequiredFields |-> SeqRange(REQUIRED_FIELDS) \subseteq
                           SeqRange(fieldNames)]

MetadataInit ==
  /\ IngestIdle
  /\ phase = "open"
  /\ input \in {[op |-> "getShapefileMetadata", files |-> fs,
                 features |-> c] :
                  fs \in FileSets, c \in ShapefileContents}
  /\ output = [results |-> <<>>, cursor |-> 0, fieldNames |-> <<>>,
               featureCount |-> 0, processRead |-> 0, onDisk |-> TRUE]

\* uploadShapefile lines 32-47: the handler answers 400 when the first
\* getShapefileMetadata fails; otherwise validateShapefileStructure calls
\* getShapefileMetadata again, and the handler answers 400 when that one
\* fails or a required field is missing, and calls processShapefile
\* otherwise.
MetadataReturn(res) ==
  LET results == Append(output.results, res)
  IN /\ output' = [output EXCEPT !.results = results]
     /\ phase' = IF ~res.success
                   THEN "rejected"
                 ELSE IF Len(results) < 2
                   THEN "open"
                 ELSE IF ~res.hasRequiredFields
                   THEN "rejected"
                 ELSE "process.open"

Openable(fs) ==
  /\ validateShapefileComponents(fs).isValid
  /\ HasFile(fs, DotShp)
  /\ HasFile(fs, DotDbf)

\* Lines 207-216
GetMetadataOpen ==
  /\ phase = "open"
  /\ IF Openable(input.files)
       THEN /\ output' = [output EXCEPT
                            !.cursor = shapefileOpen(output.cursor)]
            /\ phase' = "first"
       ELSE MetadataReturn(MetadataFailure)
  /\ UNCHANGED input
  /\ UNCHANGED ingestVars

\* Lines 218-222
GetMetadataFirst ==
  /\ phase = "first"
  /\ LET firstResult == sourceRead(input.features, output.cursor)
     IN output' = [output EXCEPT
                     !.cursor = firstResult.cursor,
                     !.fieldNames = IF firstResult.done
                                      THEN <<>>
                                      ELSE firstResult.value,
                     !.featureCount = 0]
  /\ phase' = "count"
  /\ UNCHANGED input
  /\ UNCHANGED ingestVars

\* Lines 223-239
GetMetadataCount ==
  /\ phase = "count"
  /\ LET r == sourceRead(input.features, output.cursor)
     IN IF r.done
          THEN MetadataReturn(MetadataSuccess(output.featureCount,
                                              output.fieldNames))
          ELSE /\ output' = [output EXCEPT
                               !.cursor = r.cursor,
                               !.featureCount = output.featureCount + 1]
               /\ phase' = "count"
  /\ UNCHANGED input
  /\ UNCHANGED ingestVars

\* processShapefile lines 52-70, and its finally block when it stops there
ProcessOpen ==
  /\ phase = "process.open"
  /\ IF Openable(input.files) /\ output.onDisk
       THEN /\ output' = [output EXCEPT
                            !.cursor = shapefileOpen(output.cursor),
                            !.processRead = 0]
            /\ phase' = "process.read"
       ELSE /\ output' = [output EXCEPT !.onDisk = FALSE]
            /\ phase' = "end"
  /\ UNCHANGED input
  /\ UNCHANGED ingestVars

\* processShapefile lines 73-77 and 149-152: one read of its loop
ProcessRead ==
  /\ phase = "process.read"
  /\ LET r == sourceRead(input.features, output.cursor)
     IN IF r.done
          THEN /\ output' = [output EXCEPT !.onDisk = FALSE]
               /\ phase' = "end"
          ELSE /\ output' = [output EXCEPT
                               !.cursor = r.cursor,
                               !.processRead = output.processRead + 1]
               /\ phase' = "process.read"
  /\ UNCHANGED input
  /\ UNCHANGED ingestVars

MetadataNext ==
  \/ GetMetadataOpen
  \/ GetMetadataFirst
  \/ GetMetadataCount
  \/ ProcessOpen
  \/ ProcessRead

MetadataSpec ==
  MetadataInit /\ [][MetadataNext]_vars

\* C13: two getShapefileMetadata calls in a row on the same upload return
\* the same result, the files are still on disk after them, and a
\* processShapefile that follows reads every feature of the shapefile.
C13_MetadataIdempotent ==
  /\ Len(output.results) = 2 => output.results[1] = output.results[2]
  /\ phase # "end" => output.onDisk
  /\ phase = "end" => output.processRead = Len(input.features)

C13_Witness ==
  /\ phase = "end"
  /\ Len(output.results) = 2
  /\ output.results[2].success
  /\ output.results[2].fieldNames = REQUIRED_FIELDS
  /\ output.results[2].featureCount >= 2
  /\ output.processRead = Len(input.features)

\* C14: a successful getShapefileMetadata reports as featureCount the number
\* of features in the shapefile.
C14_FeatureCountExact ==
  \A i \in DOMAIN output.results :
    output.results[i].success
      => output.results[i].featureCount = Len(input.features)

\* ------------------------------------------------------------------------
\* VillageService.getVillagesInBounds
\* ------------------------------------------------------------------------

MaxZoom == 18

MAX_VILLAGES_PER_REQUEST == 2000

DEFAULT_VILLAGES_LIMIT == 1000

ZOOM_LEVELS ==
  [LOW_DETAIL |-> 10, HIGH_DETAIL |-> 12, MAX_DETAIL |-> 18]

POPULATION_THRESHOLDS ==
  [VERY_SMALL |-> 500, SMALL |-> 1000, MEDIUM_SMALL |-> 2000,
   MEDIUM |-> 5000, LARGE |-> 10000, VERY_LARGE |-> 20000]

POPULATION_COLORS ==
  [VERY_SMALL |-> "#ffffcc", SMALL |-> "#c7e9b4", MEDIUM_SMALL |-> "#7fcdbb",
   MEDIUM |-> "#41b6c4", LARGE |-> "#2c7fb8", VERY_LARGE |-> "#253494",
   EXTREMELY_LARGE |-> "#081d58"]

getPopulationColor(population) ==
  IF population < POPULATION_THRESHOLDS.VERY_SMALL
    THEN POPULATION_COLORS.VERY_SMALL
  ELSE IF population < POPULATION_THRESHOLDS.SMALL
    THEN POPULATION_COLORS.SMALL
  ELSE IF population < POPULATION_THRESHOLDS.MEDIUM_SMALL
    THEN POPULATION_COLORS.MEDIUM_SMALL
  ELSE IF population < POPULATION_THRESHOLDS.MEDIUM
    THEN POPULATION_COLORS.MEDIUM
  ELSE IF population < POPULATION_THRESHOLDS.LARGE
    THEN POPULATION_COLORS.LARGE
  ELSE IF population < POPULATION_THRESHOLDS.VERY_LARGE
    THEN POPULATION_COLORS.VERY_LARGE
  ELSE POPULATION_COLORS.EXTREMELY_LARGE

\* JavaScript values an argument can hold: a finite number, NaN, a string,
\* undefined.
Num(n) ==
  [kind |-> "number", v |-> n]

NaN ==
  [kind |-> "NaN", v |-> 0]

Str ==
  [kind |-> "string", v |-> 0]

Undefined ==
  [kind |-> "undefined", v |-> 0]

\* typeof x === 'number'
TypeofNumber(x) ==
  x.kind \in {"number", "NaN"}

\* x >= lo && x <= hi; every comparison with NaN is false
InRange(x, lo, hi) ==
  /\ x.kind = "number"
  /\ x.v >= lo
  /\ x.v <= hi

\* x <= y
LessEq(x, y) ==
  /\ x.kind = "number"
  /\ y.kind = "number"
  /\ x.v <= y.v

\* validateBounds without the two ordering tests.
validateBoundsUnordered(bounds) ==
  /\ TypeofNumber(bounds.minLat)
  /\ TypeofNumber(bounds.maxLat)
  /\ TypeofNumber(bounds.minLng)
  /\ TypeofNumber(bounds.maxLng)
  /\ InRange(bounds.minLat, -90, 90)
  /\ InRange(bounds.maxLat, -90, 90)
  /\ InRange(bounds.minLng, -180, 180)
  /\ InRange(bounds.maxLng, -180, 180)

validateBounds(bounds) ==
  /\ TypeofNumber(bounds.minLat)
  /\ TypeofNumber(bounds.maxLat)
  /\ TypeofNumber(bounds.minLng)
  /\ TypeofNumber(bounds.maxLng)
  /\ InRange(bounds.minLat, -90, 90)
  /\ InRange(bounds.maxLat, -90, 90)
  /\ InRange(bounds.minLng, -180, 180)
  /\ InRange(bounds.maxLng, -180, 180)
  /\ LessEq(bounds.minLat, bounds.maxLat)
  /\ LessEq(bounds.minLng, bounds.maxLng)

\* zoom > level, with the default of the parameter list for undefined
ZoomAbove(zoom, level) ==
  IF zoom.kind = "undefined"
    THEN 6 > level
    ELSE zoom.kind = "number" /\ zoom.v > level

BaseProjection ==
  {"village_na", "state_name", "district_n", "subdistric", "tot_p",
   "centroid", "bounds", "area"}

\* buildProjection adding geometry for the high zooms only.
buildProjectionZoomOnly(zoom, includeGeometry) ==
  IF ZoomAbove(zoom, ZOOM_LEVELS.HIGH_DETAIL)
    THEN BaseProjection \cup {"geometry"}
    ELSE BaseProjection

\* buildProjection adding geometry from HIGH_DETAIL on.
buildProjectionInclusive(zoom, includeGeometry) ==
  IF \/ ZoomAbove(zoom, ZOOM_LEVELS.HIGH_DETAIL - 1)
     \/ includeGeometry = "true"
    THEN BaseProjection \cup {"geometry"}
    ELSE BaseProjection

buildProjection(zoom, includeGeometry) ==
  IF \/ ZoomAbove(zoom, ZOOM_LEVELS.HIGH_DETAIL)
     \/ includeGeometry = "true"
    THEN BaseProjection \cup {"geometry"}
    ELSE BaseProjection

\* calculateLimitByZoom with the middle tier left out.
calculateLimitByZoomTwoTiers(zoom) ==
  IF ZoomAbove(zoom, ZOOM_LEVELS.HIGH_DETAIL)
    THEN MAX_VILLAGES_PER_REQUEST
    ELSE DEFAULT_VILLAGES_LIMIT

\* Math.floor(MAX_VILLAGES_PER_REQUEST * 0.7)
calculateLimitByZoom(zoom) ==
  IF ZoomAbove(zoom, ZOOM_LEVELS.HIGH_DETAIL)
    THEN MAX_VILLAGES_PER_REQUEST
  ELSE IF ZoomAbove(zoom, ZOOM_LEVELS.LOW_DETAIL)
    THEN (MAX_VILLAGES_PER_REQUEST * 7) \div 10
  ELSE DEFAULT_VILLAGES_LIMIT

Box(a, b, c, d) ==
  [minLat |-> a, maxLat |-> b, minLng |-> c, maxLng |-> d]

\* A stored document; _id is the identifier the database gave it.
VillageDoc(name, population, box) ==
  [_id |-> name, village_na |-> name, state_name |-> "s", district_n |-> "d",
   subdistric |-> "u", tot_p |-> population,
   centroid |-> [lat |-> box.minLat, lng |-> box.minLng],
   bounds |-> box, area |-> 1, geometry |-> "Polygon",
   pc11_tv_id |-> name]

\* count stored documents that differ in their key and _id only
Run(doc, count) ==
  [doc |-> doc, count |-> count]

SmallStore ==
  << Run(VillageDoc("a", 0, Box(0, 5, 0, 5)), 1),
     Run(VillageDoc("b", 499, Box(10, 12, 10, 12)), 1),
     Run(VillageDoc("c", 500, Box(11, 12, 0, 5)), 1),
     Run(VillageDoc("d", 999, Box(0, 5, 11, 12)), 1),
     Run(VillageDoc("e", 1000, Box(-5, 0, -5, 0)), 1),
     Run(VillageDoc("f", 1999, Box(-5, -1, 0, 5)), 1),
     Run(VillageDoc("g", 2000, Box(2, 3, 2, 3)), 1),
     Run(VillageDoc("h", 4999, Box(-10, 20, -10, 20)), 1),
     Run(VillageDoc("i", 5000, Box(20, 30, 70, 80)), 1),
     Run(VillageDoc("j", 9999, Box(9, 11, 9, 11)), 1),
     Run(VillageDoc("k", 10000, Box(10, 10, 10, 10)), 1),
     Run(VillageDoc("l", 19999, Box(0, 10, 0, 10)), 1),
     Run(VillageDoc("m", 20000, Box(1, 2, 1, 2)), 1) >>

BigStore ==
  << Run(VillageDoc("a", 300, Box(0, 5, 0, 5)), 900),
     Run(VillageDoc("b", 700, Box(40, 50, 40, 50)), 300),
     Run(VillageDoc("c", 7000, Box(5, 10, 5, 10)), 600),
     Run(VillageDoc("d", 25000, Box(8, 20, 8, 20)), 700) >>

ExactStore ==
  << Run(VillageDoc("a", 1500, Box(0, 1, 0, 1)), 1000),
     Run(VillageDoc("b", 1500, Box(20, 30, 70, 80)), 400) >>

VillageStores ==
  { <<>>, SmallStore, BigStore, ExactStore }

\* The query of findWithinBounds as a test of one stored document.
WithinBounds(doc, bounds) ==
  /\ doc.bounds.minLat <= bounds.maxLat.v
  /\ doc.bounds.maxLat >= bounds.minLat.v
  /\ doc.bounds.minLng <= bounds.maxLng.v
  /\ doc.bounds.maxLng >= bounds.minLng.v

RECURSIVE TotalCount(_)
TotalCount(runs) ==
  IF runs = <<>> THEN 0 ELSE Head(runs).count + TotalCount(Tail(runs))

\* .limit(n): the first n documents of the cursor
RECURSIVE LimitRuns(_, _)
LimitRuns(runs, n) ==
  IF runs = <<>> \/ n = 0
    THEN <<>>
  ELSE IF Head(runs).count <= n
    THEN <<Head(runs)>> \o LimitRuns(Tail(runs), n - Head(runs).count)
  ELSE <<Run(Head(runs).doc, n)>>

\* find(filter, projection): an inclusion projection that does not say
\* _id: 0 returns _id besides the fields it names
Project(doc, projection) ==
  [f \in (DOMAIN doc) \cap (projection \cup {"_id"}) |-> doc[f]]

\* findWithinBounds keeping the documents that lie inside the box.
findWithinBoundsInside(st, bounds, options) ==
  LET Inside(run) ==
        /\ run.doc.bounds.minLat >= bounds.minLat.v
        /\ run.doc.bounds.maxLat <= bounds.maxLat.v
        /\ run.doc.bounds.minLng >= bounds.minLng.v
        /\ run.doc.bounds.maxLng <= bounds.maxLng.v
      found == LimitRuns(SelectSeq(st, Inside),
                         IF options.limit = 0 THEN 1000 ELSE options.limit)
  IN [i \in DOMAIN found |->
        Run(Project(found[i].doc, options.projection), found[i].count)]

findWithinBounds(st, bounds, options) ==
  LET Matches(run) == WithinBounds(run.doc, bounds)
      found == LimitRuns(SelectSeq(st, Matches),
                         IF options.limit = 0 THEN 1000 ELSE options.limit)
  IN [i \in DOMAIN found |->
        Run(Project(found[i].doc, options.projection), found[i].count)]

\* { ...village, color: getPopulationColor(village.tot_p) }
WithColor(village) ==
  [f \in (DOMAIN village) \cup {"color"} |->
     IF f = "color" THEN getPopulationColor(village.tot_p) ELSE village[f]]

Query(a, b, c, d) ==
  [minLat |-> a, maxLat |-> b, minLng |-> c, maxLng |-> d]

BoundsQueries ==
  { Query(Num(0), Num(10), Num(0), Num(10)),
    Query(Num(10), Num(10), Num(10), Num(10)),
    Query(Num(-90), Num(90), Num(-180), Num(180)),
    Query(Num(20), Num(30), Num(70), Num(80)),
    Query(Num(6), Num(7), Num(0), Num(4)),
    Query(Num(10), Num(0), Num(0), Num(10)),
    Query(Num(0), Num(10), Num(10), Num(0)),
    Query(Num(0), Num(91), Num(0), Num(10)),
    Query(Num(0), Num(10), Num(-181), Num(10)),
    Query(NaN, Num(10), Num(0), Num(10)),
    Query(Num(0), Num(10), Num(0), Str),
    Query(Num(0), Undefined, Num(0), Num(10)) }

ZoomValues ==
  {Num(z) : z \in 0..MaxZoom} \cup {Undefined}

NoAnswer ==
  [projection |-> {}, limit |-> 0, queries |-> 0, villages |-> <<>>,
   message |-> ""]

BoundsInit ==
  /\ IngestIdle
  /\ phase = "call"
  /\ input \in {[op |-> "getVillagesInBounds", bounds |-> q, zoom |-> z,
                 includeGeometry |-> g, villages |-> st, down |-> dn] :
                  q \in BoundsQueries, z \in ZoomValues,
                  g \in {"undefined", "false", "true"},
                  st \in VillageStores, dn \in BOOLEAN}
  /\ output = NoAnswer

\* Lines 142-152: validation, projection, cap and the query handed to the
\* store.  The 'Invalid bounds provided' error of line 144 is caught at line
\* 160, logged, and replaced by the error of line 162; message is the
\* message of the error the call raises.
BoundsQuery ==
  /\ phase = "call"
  /\ IF ~validateBounds(input.bounds)
       THEN /\ phase' = "failed"
            /\ output' = [output EXCEPT
                            !.message = "Failed to fetch villages in bounds"]
       ELSE /\ phase' = "querying"
            /\ output' = [output EXCEPT
                            !.projection = buildProjection(input.zoom,
                                             input.includeGeometry),
                            !.limit = calculateLimitByZoom(input.zoom),
                            !.queries = output.queries + 1]
  /\ UNCHANGED input
  /\ UNCHANGED ingestVars

\* Lines 149-163: the store answers or fails; the answer gets its colours.
BoundsAnswer ==
  /\ phase = "querying"
  /\ IF input.down
       THEN /\ phase' = "failed"
            /\ output' = [output EXCEPT
                            !.message = "Failed to fetch villages in bounds"]
       ELSE LET found == findWithinBounds(input.villages, input.bounds,
                           [projection |-> output.projection,
                            limit |-> output.limit])
            IN /\ phase' = "returned"
               /\ output' = [output EXCEPT !.villages =
                               [i \in DOMAIN found |->
                                  Run(WithColor(found[i].doc),
                                      found[i].count)]]
  /\ UNCHANGED input
  /\ UNCHANGED ingestVars

BoundsNext ==
  \/ BoundsQuery
  \/ BoundsAnswer

BoundsSpec ==
  BoundsInit /\ [][BoundsNext]_vars

\* The zoom the query runs at: options.zoom, or 6 when none is given.
EffectiveZoom ==
  IF input.zoom.kind = "undefined" THEN 6 ELSE input.zoom.v

CoreFields ==
  {"village_na", "state_name", "district_n", "subdistric", "tot_p",
   "centroid", "bounds", "area"}

\* C15: the projection always holds the core fields, and holds geometry
\* exactly when zoom is strictly above HIGH_DETAIL or geometry is explicitly
\* requested; the returned records carry the projected fields, the _id the
\* database adds and the colour.
C15_ProjectionFields ==
  phase \in {"querying", "returned"} =>
    /\ CoreFields \subseteq output.projection
    /\ output.projection \subseteq CoreFields \cup {"geometry"}
    /\ "geometry" \in output.projection
         <=> \/ EffectiveZoom > ZOOM_LEVELS.HIGH_DETAIL
             \/ input.includeGeometry = "true"
    /\ \A i \in DOMAIN output.villages :
         DOMAIN output.villages[i].doc
           = output.projection \cup {"_id", "color"}

\* zoom 15, nothing requested: the records come with their geometry.
C15_Witness ==
  /\ phase = "returned"
  /\ input.zoom = Num(15)
  /\ input.includeGeometry = "undefined"
  /\ output.villages # <<>>
  /\ "geometry" \in DOMAIN output.villages[1].doc

\* C16: the cap is MAX_VILLAGES_PER_REQUEST above HIGH_DETAIL,
\* floor(0.7 * MAX_VILLAGES_PER_REQUEST) above LOW_DETAIL and not above
\* HIGH_DETAIL, DEFAULT_VILLAGES_LIMIT at or below LOW_DETAIL, and it never
\* decreases as zoom grows.
C16_TieredCap ==
  /\ phase \in {"querying", "returned"} =>
       output.limit =
         CASE EffectiveZoom > ZOOM_LEVELS.HIGH_DETAIL -> 2000
           [] (EffectiveZoom > ZOOM_LEVELS.LOW_DETAIL
                 /\ EffectiveZoom <= ZOOM_LEVELS.HIGH_DETAIL) -> 1400
           [] EffectiveZoom <= ZOOM_LEVELS.LOW_DETAIL -> 1000
  /\ \A a, b \in 0..MaxZoom :
       a <= b => calculateLimitByZoom(Num(a)) <= calculateLimitByZoom(Num(b))

C16_Witness ==
  /\ phase = "querying"
  /\ input.zoom = Num(11)
  /\ output.limit = 1400

\* The two boxes intersect.
BoundsOverlap(a, b) ==
  /\ a.minLat <= b.maxLat
  /\ a.maxLat >= b.minLat
  /\ a.minLng <= b.maxLng
  /\ a.maxLng >= b.minLng

QueryBox ==
  Box(input.bounds.minLat.v, input.bounds.maxLat.v,
      input.bounds.minLng.v, input.bounds.maxLng.v)

\* The stored records that overlap the query box, in store order.
Overlapping ==
  LET Hit(run) == BoundsOverlap(run.doc.bounds, QueryBox)
  IN SelectSeq(input.villages, Hit)

ReturnsGeometry ==
  \A i \in DOMAIN output.villages :
    "geometry" \in DOMAIN output.villages[i].doc

ReturnsNoGeometry ==
  \A i \in DOMAIN output.villages :
    "geometry" \notin DOMAIN output.villages[i].doc

ReturnsUpTo(cap) ==
  TotalCount(output.villages) = Min(TotalCount(Overlapping), cap)

\* C17 as stated: the tiers start at the thresholds themselves, geometry and
\* the maximum cap from HIGH_DETAIL on, 70% of the maximum cap from
\* LOW_DETAIL up to but not including HIGH_DETAIL.
C17_TierTableInclusive ==
  phase = "returned" /\ input.includeGeometry # "true" =>
    /\ EffectiveZoom >= ZOOM_LEVELS.HIGH_DETAIL
         => ReturnsGeometry /\ ReturnsUpTo(2000)
    /\ (EffectiveZoom >= ZOOM_LEVELS.LOW_DETAIL
          /\ EffectiveZoom < ZOOM_LEVELS.HIGH_DETAIL)
         => ReturnsNoGeometry /\ ReturnsUpTo(1400)
    /\ EffectiveZoom < ZOOM_LEVELS.LOW_DETAIL
         => ReturnsNoGeometry /\ ReturnsUpTo(1000)

\* C17, amended: the tiers start strictly above the thresholds.  When
\* geometry is not explicitly requested, a query at zoom > HIGH_DETAIL
\* returns geometry and at most the maximum cap, at
\* LOW_DETAIL < zoom <= HIGH_DETAIL no geometry and at most 70% of the
\* maximum cap, at zoom <= LOW_DETAIL no geometry and at most the default
\* cap.
C17_TierTableStrict ==
  phase = "returned" /\ input.includeGeometry # "true" =>
    /\ EffectiveZoom > ZOOM_LEVELS.HIGH_DETAIL
         => ReturnsGeometry /\ ReturnsUpTo(2000)
    /\ (EffectiveZoom > ZOOM_LEVELS.LOW_DETAIL
          /\ EffectiveZoom <= ZOOM_LEVELS.HIGH_DETAIL)
         => ReturnsNoGeometry /\ ReturnsUpTo(1400)
    /\ EffectiveZoom <= ZOOM_LEVELS.LOW_DETAIL
         => ReturnsNoGeometry /\ ReturnsUpTo(1000)

\* At zoom HIGH_DETAIL itself: no geometry, and 1400 of more than 2000.
C17_Witness ==
  /\ phase = "returned"
  /\ input.includeGeometry # "true"
  /\ input.zoom = Num(ZOOM_LEVELS.HIGH_DETAIL)
  /\ TotalCount(Overlapping) > 2000
  /\ TotalCount(output.villages) = 1400
  /\ ReturnsNoGeometry

\* The colour of the population bucket.
BucketColour(population) ==
  CASE population < 500 -> "#ffffcc"
    [] population >= 500 /\ population < 1000 -> "#c7e9b4"
    [] population >= 1000 /\ population < 2000 -> "#7fcdbb"
    [] population >= 2000 /\ population < 5000 -> "#41b6c4"
    [] population >= 5000 /\ population < 10000 -> "#2c7fb8"
    [] population >= 10000 /\ population < 20000 -> "#253494"
    [] population >= 20000 -> "#081d58"

\* C18: every returned record overlaps the query box, all overlapping
\* records are returned when they are no more than the cap, never more than
\* the cap are returned, and every returned record carries the colour of
\* its population bucket.
C18_OverlapCapColour ==
  phase = "returned" =>
    /\ \A i \in DOMAIN output.villages :
         /\ BoundsOverlap(output.villages[i].doc.bounds, QueryBox)
         /\ output.villages[i].doc.color
              = BucketColour(output.villages[i].doc.tot_p)
    /\ TotalCount(output.villages) <= output.limit
    /\ (TotalCount(Overlapping) <= output.limit) =>
         /\ Len(output.villages) = Len(Overlapping)
         /\ \A i \in DOMAIN output.villages :
              /\ output.villages[i].count = Overlapping[i].count
              /\ output.villages[i].doc.village_na
                   = Overlapping[i].doc.village_na
    /\ \A i \in DOMAIN output.villages :
         /\ output.villages[i].count <= Overlapping[i].count
         /\ output.villages[i].doc.village_na = Overlapping[i].doc.village_na

\* A store with records outside the box and more records inside it than the
\* cap.
C18_Witness ==
  /\ phase = "returned"
  /\ Len(Overlapping) < Len(input.villages)
  /\ TotalCount(Overlapping) > output.limit
  /\ TotalCount(output.villages) = output.limit
  /\ Len(output.villages) >= 2
  /\ output.villages[2].doc.color = "#2c7fb8"

\* Every value is a number, latitudes within [-90, 90], longitudes within
\* [-180, 180], and neither minimum above its maximum.
ValidQuery(q) ==
  /\ \A f \in {"minLat", "maxLat", "minLng", "maxLng"} : q[f].kind = "number"
  /\ \A f \in {"minLat", "maxLat"} : q[f].v >= -90 /\ q[f].v <= 90
  /\ \A f \in {"minLng", "maxLng"} : q[f].v >= -180 /\ q[f].v <= 180
  /\ ~(q.minLat.v > q.maxLat.v)
  /\ ~(q.minLng.v > q.maxLng.v)

MaxRing == 4

\* The values of geometry.coordinates the operations are called with.
CoordinateValues ==
  {Coordinates(k, 0) : k \in {"missing", "string", "empty", "numbers"}}
    \cup {Coordinates("points", n) : n \in 2..3}
    \cup {Coordinates(k, n) : k \in {"rings", "polygons"}, n \in 0..MaxRing}
    \cup {Projected(Coordinates("rings", MaxRing))}

Shapes ==
  {NullGeometry}
    \cup {Geometry(t, c) : t \in {"", "Polygon", "MultiPolygon", "Point",
                                   "Circle"},
                           c \in CoordinateValues}

GeoInit ==
  /\ IngestIdle
  /\ phase = "validate"
  /\ input \in {[op |-> "GeoService", geometry |-> g] : g \in Shapes}
  /\ output = [valid |-> FALSE, centroid |-> NotCalled, bounds |-> NotCalled,
               area |-> NotCalled]

\* validateGeometry
ValidateGeometry ==
  /\ phase = "validate"
  /\ output' = [output EXCEPT !.valid = validateGeometry(input.geometry)]
  /\ phase' = "centroid"
  /\ UNCHANGED input
  /\ UNCHANGED ingestVars

\* calculateCentroid; turfFails is whether turf.centroid throws.
CalculateCentroid ==
  /\ phase = "centroid"
  /\ \E turfFails \in BOOLEAN :
       output' = [output EXCEPT !.centroid =
                    calculateCentroid(input.geometry, turfFails)]
  /\ phase' = "bounds"
  /\ UNCHANGED input
  /\ UNCHANGED ingestVars

\* calculateBounds; turfFails is whether turf.bbox throws.
CalculateBounds ==
  /\ phase = "bounds"
  /\ \E turfFails \in BOOLEAN :
       output' = [output EXCEPT !.bounds =
                    calculateBounds(input.geometry, turfFails)]
  /\ phase' = "area"
  /\ UNCHANGED input
  /\ UNCHANGED ingestVars

\* calculateArea; turfFails is whether turf.area throws.
CalculateArea ==
  /\ phase = "area"
  /\ \E turfFails \in BOOLEAN :
       output' = [output EXCEPT !.area =
                    calculateArea(input.geometry, turfFails)]
  /\ phase' = "computed"
  /\ UNCHANGED input
  /\ UNCHANGED ingestVars

GeoNext ==
  \/ ValidateGeometry
  \/ CalculateCentroid
  \/ CalculateBounds
  \/ CalculateArea

GeoSpec ==
  GeoInit /\ [][GeoNext]_vars

\* C20: on a geometry that fails shape validation, calculateCentroid,
\* calculateBounds and calculateArea each return a value and none raises,
\* whether or not the library call fails.
C20_GeometryTotal ==
  ~validateGeometry(input.geometry) =>
    /\ ~output.centroid.raised
    /\ ~output.bounds.raised
    /\ ~output.area.raised

\* ------------------------------------------------------------------------
\* processFeature on its own
\* ------------------------------------------------------------------------

TextValues ==
  { PopText(<<"s">>), PopText(<<" ", "s", " ">>), PopText(<<"<", "s", ">">>),
    PopText(<<"<", " ", "s", " ", ">">>), PopText(<<"<", ">">>),
    PopText(<<" ">>), PopText(<<>>), PopText(<<"<", " ", ">">>),
    PopText(<<"s", "<", "t">>), PopText(<<"\t", "s", "\n">>),
    PopText(<<"@NBSP@">>), PopText(<<"@U2003@">>),
    PopText(<<"@U3000@", "s", "@U2028@">>),
    PopNumber(7), PopAbsent }

PopulationValues ==
  { PopAbsent, PopNumber(0), PopNumber(1200), PopNumber(-3),
    PopDecimal(<<"1", "2", ".", "9">>), PopDecimal(<<"1", "e", "+", "2", "1">>),
    PopText(<<"1", "2">>), PopText(<<" ", "7">>), PopText(<<"\t", "7">>),
    PopText(<<"-", "5">>), PopText(<<"a", "b", "c">>), PopText(<<>>),
    PopText(<<"1", "2", "a">>), PopText(<<"+", "4">>), PopText(<<"-">>),
    PopText(<<"0">>), PopText(<<"0", "x", "1", "0">>),
    PopText(<<"-", "0", "X", "1", "f">>), PopText(<<"@U2003@", "7">>) }

\* The geometries processFeature is called with.
FeatureGeometries ==
  { Poly4, Geometry("Polygon", Coordinates("rings", 2)),
    Geometry("Polygon", Projected(Coordinates("rings", 4))),
    Geometry("Polygon", Coordinates("points", 3)),
    Geometry("MultiPolygon", Coordinates("polygons", 3)),
    Geometry("LineString", Coordinates("points", 2)),
    Geometry("Point", Coordinates("numbers", 0)) }

FeatureInit ==
  /\ IngestIdle
  /\ phase = "feature"
  /\ input \in {[op |-> "processFeature",
                 feature |-> Feature(g,
                   [Properties(<<"s">>, <<"d">>, <<"u">>, <<"v">>, <<"1">>)
                      EXCEPT !.state_name = st, !.tot_p = pop]),
                 turf |-> t] :
                  g \in FeatureGeometries, st \in TextValues,
                  pop \in PopulationValues,
                  t \in TurfOutcomes}
  /\ output = [accepted |-> FALSE,
               villageData |-> processFeature(Feature(Poly4, NullProperties),
                                              TurfReturns).villageData]

ProcessFeature ==
  /\ phase = "feature"
  /\ phase' = "processed"
  /\ output' = processFeature(input.feature, input.turf)
  /\ UNCHANGED input
  /\ UNCHANGED ingestVars

FeatureNext ==
  ProcessFeature

FeatureSpec ==
  FeatureInit /\ [][FeatureNext]_vars

\* C21: an accepted record has a population >= 0: the parsed integer when
\* tot_p parses to an integer >= 0, and 0 when it is absent or unparsable.
C21_PopulationNonNegative ==
  phase = "processed" /\ output.accepted =>
    LET parsed == parseInt(input.feature.properties.tot_p)
    IN /\ output.villageData.tot_p >= 0
       /\ parsed.isNaN => output.villageData.tot_p = 0
       /\ (~parsed.isNaN /\ parsed.v >= 0)
            => output.villageData.tot_p = parsed.v

\* C25: every sanitized field is free of < and >, has no leading or
\* trailing white space and is left unchanged by sanitizing it again, and
\* an accepted record has non-blank state, district and subdistrict.
C25_SanitizeClean ==
  phase = "processed" =>
    /\ \A f \in {"state_name", "district_n", "subdistric", "village_na",
                 "pc11_tv_id"} :
         LET x == output.villageData[f]
         IN /\ \A i \in DOMAIN x : x[i] \notin {"<", ">"}
            /\ x = <<>> \/ (x[1] \notin WhiteSpace /\ x[Len(x)] \notin WhiteSpace)
            /\ sanitizeString(PopText(x)) = x
    /\ output.accepted =>
         \A f \in {"state_name", "district_n", "subdistric"} :
           \E i \in DOMAIN output.villageData[f] :
             output.villageData[f][i] \notin WhiteSpace

\* ------------------------------------------------------------------------
\* Two ingestions writing to the same collection
\* ------------------------------------------------------------------------

MaxUploadRecords == 2

\* A record as processFeature returns it.
Record(village, id) ==
  processFeature(Feature(Poly4,
    Properties(<<"s">>, <<"d">>, <<"u">>, village, id)), TurfReturns).villageData

\* Two records with census id 1, one with 2, and one that processFeature
\* accepts although it has no village name.
UploadRecords ==
  { Record(<<"v">>, <<"1">>), Record(<<"w">>, <<"1">>),
    Record(<<"v">>, <<"2">>), Record(<<>>, <<"3">>) }

Uploads ==
  SeqsUpTo(UploadRecords, MaxUploadRecords) \ {<<>>}

Ingestions ==
  {1, 2}

ConcurrentInit ==
  /\ IngestIdle
  /\ phase = "concurrent"
  /\ input \in {[op |-> "processShapefile", uploads |-> <<a, b>>] :
                  a \in Uploads, b \in Uploads}
  /\ output = [store |-> {},
               at |-> [p \in Ingestions |-> "loop"],
               read |-> [p \in Ingestions |-> 0],
               batch |-> [p \in Ingestions |-> <<>>],
               pending |-> [p \in Ingestions |-> <<>>],
               insertedCount |-> [p \in Ingestions |-> 0],
               writeErrors |-> [p \in Ingestions |-> 0],
               processedCount |-> [p \in Ingestions |-> 0],
               added |-> [p \in Ingestions |-> 0]]

\* Lines 89-93 and 118-120 of ingestion p: the next batch is handed to
\* insertMany, which validates the documents and sends the valid ones.
BeginWrite(p) ==
  /\ output.at[p] = "loop"
  /\ LET upload == input.uploads[p]
         n == Min(BATCH_SIZE, Len(upload) - output.read[p])
         b == SubSeq(upload, output.read[p] + 1, output.read[p] + n)
     IN IF n = 0
          THEN output' = [output EXCEPT !.at[p] = "done"]
          ELSE output' = [output EXCEPT
                            !.at[p] = "writing",
                            !.read[p] = output.read[p] + n,
                            !.batch[p] = b,
                            !.pending[p] = SelectSeq(b, SchemaValid),
                            !.insertedCount[p] = 0,
                            !.writeErrors[p] = 0]
  /\ UNCHANGED <<phase, input>>
  /\ UNCHANGED ingestVars

\* The store takes the next document of p's insertMany: the unique index
\* refuses a census id it already holds.
WriteOne(p) ==
  /\ output.at[p] = "writing"
  /\ output.pending[p] # <<>>
  /\ LET doc == Head(output.pending[p])
     IN IF UniqueKey(doc) \in StoreKeys(output.store)
          THEN output' = [output EXCEPT
                            !.pending[p] = Tail(output.pending[p]),
                            !.writeErrors[p] = output.writeErrors[p] + 1]
          ELSE output' = [output EXCEPT
                            !.pending[p] = Tail(output.pending[p]),
                            !.store = output.store \cup {doc},
                            !.insertedCount[p] = output.insertedCount[p] + 1,
                            !.added[p] = output.added[p] + 1]
  /\ UNCHANGED <<phase, input>>
  /\ UNCHANGED ingestVars

\* insertMany settles and createVillagesBatch reports to ingestion p.
EndWrite(p) ==
  /\ output.at[p] = "writing"
  /\ output.pending[p] = <<>>
  /\ LET out == [insertedCount |-> output.insertedCount[p],
                 writeErrors |-> output.writeErrors[p],
                 rejected |-> output.writeErrors[p] > 0,
                 hasWriteErrors |-> output.writeErrors[p] > 0]
         batchResult == createVillagesBatch(output.batch[p], out)
     IN output' = [output EXCEPT
                     !.at[p] = "loop",
                     !.batch[p] = <<>>,
                     !.processedCount[p] =
                        output.processedCount[p] + batchResult.successCount]
  /\ UNCHANGED <<phase, input>>
  /\ UNCHANGED ingestVars

\* DELETE /villages/all with the confirmation text, from another client
\* while the two ingestions run: Village.deleteMany({})
DeleteAllBetweenWrites ==
  /\ output.store # {}
  /\ output' = [output EXCEPT !.store = {}]
  /\ UNCHANGED <<phase, input>>
  /\ UNCHANGED ingestVars

ConcurrentNext ==
  \/ \E p \in Ingestions :
       \/ BeginWrite(p)
       \/ WriteOne(p)
       \/ EndWrite(p)
  \/ DeleteAllBetweenWrites

ConcurrentSpec ==
  ConcurrentInit /\ [][ConcurrentNext]_vars

\* C22: in every interleaving of the bulk writes of two ingestions each
\* census id is stored at most once, and when both have finished the sum of
\* their processedCounts is the number of records they added to the store.
C22_ConcurrentExactlyOnce ==
  /\ \A d1, d2 \in output.store : UniqueKey(d1) = UniqueKey(d2) => d1 = d2
  /\ (\A p \in Ingestions : output.at[p] = "done") =>
       output.processedCount[1] + output.processedCount[2]
         = output.added[1] + output.added[2]

\* C24: validateGeometry returns true only for a geometry of a recognized
\* type whose coordinates are a non-empty sequence and, for a Polygon,
\* whose outer ring has at least 3 points.
C24_ValidGeometryShape ==
  phase # "validate" /\ output.valid =>
    /\ input.geometry.defined
    /\ input.geometry.type \in {"Polygon", "MultiPolygon", "Point",
                                "LineString"}
    /\ input.geometry.coords.kind \in {"numbers", "points", "rings",
                                        "polygons"}
    /\ input.geometry.type = "Polygon" =>
         /\ input.geometry.coords.kind = "rings"
         /\ input.geometry.coords.ring >= 3

\* ------------------------------------------------------------------------
\* UploadController.uploadShapefile
\* ------------------------------------------------------------------------

\* What getShapefileMetadata returns for these files and this content: the
\* field names of the first feature and the count of the reads after it.
getShapefileMetadata(fs, features) ==
  IF ~Openable(fs)
    THEN MetadataFailure
  ELSE IF features = <<>>
    THEN MetadataSuccess(0, <<>>)
  ELSE MetadataSuccess(Len(features) - 1, features[1])

UploadInit ==
  /\ IngestIdle
  /\ phase = "validate"
  /\ input \in {[op |-> "uploadShapefile", files |-> fs, features |-> c,
                 locked |-> l] :
                  fs \in FileSets \cup {<<>>}, c \in ShapefileContents,
                  l \in LockedPaths}
  /\ output = [status |-> 0, exit |-> "", disk |-> Paths(input.files)]

Respond(status, exit, onDisk) ==
  /\ phase' = "responded"
  /\ output' = [status |-> status, exit |-> exit, disk |-> onDisk]

\* Lines 13-30
HandlerValidate ==
  /\ phase = "validate"
  /\ IF input.files = <<>>
       THEN Respond(400, "no files", output.disk)
     ELSE IF ~validateShapefileComponents(input.files).isValid
       THEN Respond(400, "components", output.disk)
     ELSE /\ phase' = "metadata"
          /\ UNCHANGED output
  /\ UNCHANGED input
  /\ UNCHANGED ingestVars

\* Lines 32-38
HandlerMetadata ==
  /\ phase = "metadata"
  /\ IF ~getShapefileMetadata(input.files, input.features).success
       THEN Respond(400, "metadata", output.disk)
       ELSE /\ phase' = "structure"
            /\ UNCHANGED output
  /\ UNCHANGED input
  /\ UNCHANGED ingestVars

\* Lines 40-48 with validateShapefileStructure
HandlerStructure ==
  /\ phase = "structure"
  /\ IF ~getShapefileMetadata(input.files, input.features).hasRequiredFields
       THEN Respond(400, "structure", output.disk)
       ELSE /\ phase' = "process"
            /\ UNCHANGED output
  /\ UNCHANGED input
  /\ UNCHANGED ingestVars

\* Lines 61-93: processShapefile succeeds or fails, and its finally block
\* has removed the files either way.
HandlerProcess ==
  /\ phase = "process"
  /\ \E success \in BOOLEAN :
       Respond(IF success THEN 200 ELSE 500, "processed",
               cleanupFiles(input.files, output.disk, input.locked))
  /\ UNCHANGED input
  /\ UNCHANGED ingestVars

UploadNext ==
  \/ HandlerValidate
  \/ HandlerMetadata
  \/ HandlerStructure
  \/ HandlerProcess

UploadSpec ==
  UploadInit /\ [][UploadNext]_vars

\* C28: whatever exit uploadShapefile takes, none of the uploaded files is
\* on disk once it has responded.
C28_HandlerReleasesFiles ==
  phase = "responded" => output.disk \cap Paths(input.files) = {}

\* ------------------------------------------------------------------------
\* GET /villages and GET /villages/bounds: the limit put to the store
\* ------------------------------------------------------------------------

\* req.query.limit
QueryLimits ==
  {PopAbsent, PopText(<<"a">>), PopText(<<"-", "1">>),
   PopText(<<"5", "0", "x">>)}
    \cup {PopText(Decimal(n)) :
            n \in {0, 1, 999, 1000, 1400, 2000, 2001, 5000, 5001}}

\* req.query.zoom
QueryZooms ==
  {PopAbsent, PopText(<<"z">>)}
    \cup {PopText(Decimal(z)) : z \in 0..(MaxZoom + 3)}

LimitInit ==
  /\ IngestIdle
  /\ input \in {[op |-> route, limit |-> l, zoom |-> z] :
                  route \in {"getVillages", "getVillagesInBounds"},
                  l \in QueryLimits, z \in QueryZooms}
  /\ phase = IF input.op = "getVillages" THEN "pagination" ELSE "zoom"
  /\ output = [limit |-> input.limit, zoom |-> input.zoom, status |-> 0,
               applied |-> 0]

\* validatePagination, the limit parameter
RouteValidatePagination ==
  /\ phase = "pagination"
  /\ IF output.limit.kind = "undefined"
       THEN /\ phase' = "zoom"
            /\ UNCHANGED output
     ELSE IF \/ parseInt(output.limit).isNaN
             \/ parseInt(output.limit).v < 1
             \/ parseInt(output.limit).v > 5000
       THEN /\ phase' = "rejected"
            /\ output' = [output EXCEPT !.status = 400]
     ELSE /\ phase' = "zoom"
          /\ output' = [output EXCEPT
                          !.limit = PopNumber(parseInt(output.limit).v)]
  /\ UNCHANGED input
  /\ UNCHANGED ingestVars

\* validateZoom
RouteValidateZoom ==
  /\ phase = "zoom"
  /\ IF output.zoom.kind = "undefined"
       THEN /\ phase' = "controller"
            /\ UNCHANGED output
     ELSE IF \/ parseInt(output.zoom).isNaN
             \/ parseInt(output.zoom).v < 1
             \/ parseInt(output.zoom).v > 20
       THEN /\ phase' = "rejected"
            /\ output' = [output EXCEPT !.status = 400]
     ELSE /\ phase' = "controller"
          /\ output' = [output EXCEPT
                          !.zoom = PopNumber(parseInt(output.zoom).v)]
  /\ UNCHANGED input
  /\ UNCHANGED ingestVars

\* The controller's options and the limit the service gives to the query:
\* options.limit || DEFAULT_VILLAGES_LIMIT in getVillages,
\* calculateLimitByZoom(options.zoom) in getVillagesInBounds.
RouteQuery ==
  /\ phase = "controller"
  /\ LET z == parseIntOrZero(output.zoom)
         zoom == IF z = 0 THEN 6 ELSE z
         limit == parseIntOrZero(output.limit)
     IN output' = [output EXCEPT
                     !.status = 200,
                     !.applied =
                        IF input.op = "getVillagesInBounds"
                          THEN calculateLimitByZoom(Num(zoom))
                        ELSE IF limit = 0
                          THEN DEFAULT_VILLAGES_LIMIT
                        ELSE limit]
  /\ phase' = "queried"
  /\ UNCHANGED input
  /\ UNCHANGED ingestVars

LimitNext ==
  \/ RouteValidatePagination
  \/ RouteValidateZoom
  \/ RouteQuery

LimitSpec ==
  LimitInit /\ [][LimitNext]_vars

\* C29: the limit given to the store by getVillages and by
\* getVillagesInBounds is at most MAX_VILLAGES_PER_REQUEST for every zoom
\* and limit that request validation lets through.
C29_LimitWithinMax ==
  phase = "queried" =>
    /\ output.applied >= 1
    /\ output.applied <= MAX_VILLAGES_PER_REQUEST

\* ------------------------------------------------------------------------
\* validateRateLimit(maxRequests, windowMs)
\* ------------------------------------------------------------------------

MaxTime == 3

\* The arguments the limiter instances are created with.
LimiterSettings ==
  { [maxRequests |-> 1, windowMs |-> 1], [maxRequests |-> 1, windowMs |-> 2],
    [maxRequests |-> 2, windowMs |-> 1], [maxRequests |-> 2, windowMs |-> 2],
    [maxRequests |-> 2, windowMs |-> 3], [maxRequests |-> 3, windowMs |-> 2] }

RateClients ==
  {"10.0.0.1", "10.0.0.2"}

\* The filter keeping one millisecond less than the window.
InWindowShort(timestamp, windowStart) ==
  timestamp > windowStart + 1

\* timestamp > windowStart
InWindow(timestamp, windowStart) ==
  timestamp > windowStart

RateInit ==
  /\ IngestIdle
  /\ phase = "limiter"
  /\ input \in {[op |-> "validateRateLimit", maxRequests |-> x.maxRequests,
                 windowMs |-> x.windowMs] : x \in LimiterSettings}
  /\ output = [requests |-> [c \in RateClients |-> <<>>],
               admitted |-> [c \in RateClients |-> <<>>],
               rejected |-> [c \in RateClients |-> 0],
               now |-> 0,
               last |-> [client |-> "", admitted |-> FALSE, before |-> 0]]

\* One request of clientIp through the middleware, elapsed milliseconds
\* after the previous one.  admitted, rejected and last record what
\* happened: the timestamps let through, the number turned away (one is
\* enough to tell), and the latest decision with the number of the
\* client's own admitted requests in the window before it.
RateRequest ==
  \E clientIp \in RateClients, elapsed \in 0..2 :
    /\ phase = "limiter"
    /\ output.now + elapsed <= MaxTime
    /\ LET now == output.now + elapsed
           windowStart == now - input.windowMs
           Keep(timestamp) == InWindow(timestamp, windowStart)
           clientRequests == SelectSeq(output.requests[clientIp], Keep)
           own == SelectSeq(output.admitted[clientIp],
                            LAMBDA t : t > windowStart)
       IN IF Len(clientRequests) >= input.maxRequests
            THEN output' = [output EXCEPT
                              !.requests[clientIp] = clientRequests,
                              !.rejected[clientIp] = 1,
                              !.now = now,
                              !.last = [client |-> clientIp,
                                        admitted |-> FALSE,
                                        before |-> Len(own)]]
            ELSE output' = [output EXCEPT
                              !.requests[clientIp] =
                                 Append(clientRequests, now),
                              !.admitted[clientIp] =
                                 Append(output.admitted[clientIp], now),
                              !.now = now,
                              !.last = [client |-> clientIp,
                                        admitted |-> TRUE,
                                        before |-> Len(own)]]
    /\ UNCHANGED <<phase, input>>
    /\ UNCHANGED ingestVars

RateNext ==
  RateRequest

RateSpec ==
  RateInit /\ [][RateNext]_vars

\* The requests of client c admitted in the window (t - windowMs, t].
AdmittedInWindow(c, t) ==
  Cardinality({i \in DOMAIN output.admitted[c] :
                 /\ output.admitted[c][i] > t - input.windowMs
                 /\ output.admitted[c][i] <= t})

\* C30: for each client, no window (t - windowMs, t] holds more than
\* maxRequests admitted requests; the limiter records admitted requests
\* only; and a request is admitted exactly when fewer than maxRequests of
\* the same client's admitted requests lie in its window, whatever the
\* other clients did.
C30_SlidingWindowLimit ==
  /\ \A c \in RateClients : \A t \in 0..MaxTime :
       AdmittedInWindow(c, t) <= input.maxRequests
  /\ \A c \in RateClients :
       /\ Len(output.requests[c]) <= Len(output.admitted[c])
       /\ output.requests[c] =
            SubSeq(output.admitted[c],
                   Len(output.admitted[c]) - Len(output.requests[c]) + 1,
                   Len(output.admitted[c]))
  /\ output.last.client # "" =>
       (output.last.admitted <=> output.last.before < input.maxRequests)

\* One client has been turned away and admitted again once its window had
\* passed, while the other was admitted throughout.
C30_Witness ==
  \E c, d \in RateClients :
    /\ c # d
    /\ output.rejected[c] = 1
    /\ Len(output.admitted[c]) > input.maxRequests
    /\ output.rejected[d] = 0
    /\ Len(output.admitted[d]) >= 1
    /\ output.last.client = c
    /\ output.last.admitted

====
